---------------------------- MODULE Spec2Model ----------------------------
(***************************************************************************)
(* A model of the SQLi Hunter detection engine (src/sqli_hunter/scanner.py *)
(* and src/main.py): the scanner workers pulling injection points from the *)
(* shared queue, Scanner.scan_target with its techniques, the shared       *)
(* result set and the shared rate limiter.                                 *)
(*                                                                         *)
(* Scheduling is asyncio's: a coroutine runs without interruption from one *)
(* suspension point to the next.  The suspension points that matter are    *)
(* the network requests (asyncio.to_thread); a worker that is not idle is  *)
(* therefore always waiting for the answer to one request, and one action  *)
(* of the model is "the answer arrives, the code runs up to and including  *)
(* the sending of the next request".  asyncio.sleep and the browser calls  *)
(* touch no shared state and are folded into the step that follows them.   *)
(*                                                                         *)
(* Times are in milliseconds, backoff delays in 1/16 s (every value the    *)
(* doubling and halving rules can produce from 1.0 s and 60.0 s is a       *)
(* multiple of 1/16 s), anomaly scores in 1/6400 (0.8 is 5120).            *)
(***************************************************************************)
EXTENDS Integers, Sequences, FiniteSets, TLC

VARIABLES
    queue,              \* main.py: the asyncio.Queue of target items (and sentinels)
    produced,           \* the items the crawler has put on the queue
    wk,                 \* per worker: its position in scanner_worker / scan_target
    net,                \* the requests in flight (handed to the transport, unanswered)
    vulnerable_points,  \* Scanner.vulnerable_points
    rl,                 \* Scanner.rate_limit_active / rate_limit_delay / successful_requests_since_rl
    transport,          \* the target server's behaviour and its fingerprinted WAF (the environment)
    limits,             \* how many fuzz payloads / ORDER BY indexes the run uses
    handled,            \* SpecRL: the responses handled so far and the last of them
    run,                \* main.py: where run_scan_logic stands, and the queue's unfinished tasks
    gen,                \* SpecGen: a call of AstPayloadGenerator, its arguments and what it gave
    sel,                \* SpecTamper: the TamperSelector (chains, stats) and what was asked of it
    dd,                 \* SpecDedup: a call of deduplicate_vulnerabilities, its input and its loop
    wafdet,             \* SpecWaf: a call of WafDetector._predict_waf, its signatures and features
    analysis,           \* one call of Scanner._analyze_response_for_anomalies: its arguments and its result
    orch,               \* DistributedOrchestrator (zmq backend): run's position, the agents, the PULL socket's pipe, metrics, the report file
    rlgen,              \* RLPayloadGenerator: epsilon, q_table, the last call of choose
    pe,                 \* one variation of PolymorphicEngine.generate: _apply_grammar's loop position and payload
    fc                  \* MockFirecrackerManager and the agent tasks of one DistributedOrchestrator.run

vars == <<queue, produced, wk, net, vulnerable_points, rl, transport, limits, handled, run, gen, sel, dd, wafdet, analysis, orch, rlgen, pe, fc>>

----------------------------------------------------------------------------
(* Bounds of the model *)

\* Spec only: how many of QUICK_SCAN_PAYLOADS the fuzz pass uses
MaxFuzzPayloads == 1
\* Spec only: the ORDER BY probe stops at this index instead of 25
MaxOrderBy == 2

\* two of the SCANNER_WORKERS workers
Workers == {1, 2}

----------------------------------------------------------------------------
(* Program constants *)

\* MAX_BACKOFF_DELAY = 60.0 s, in 1/16 s
MAX_BACKOFF_DELAY == 960
\* the initial rate_limit_delay and the floor of the halving rule, 1.0 s, in 1/16 s
MIN_BACKOFF_DELAY == 16
\* successful_requests_since_rl >= 10
CLEAN_STREAK == 10
\* ANOMALY_CONFIRMATION_THRESHOLD = 0.8, in 1/6400
ANOMALY_CONFIRMATION_THRESHOLD == 5120
\* range(1, 26) of the ORDER BY probe
ORDER_BY_LAST == 25
\* Simhash distance above which two bodies count as different
SIMHASH_THRESHOLD == 5
\* the three baseline requests of _get_baseline
BASELINE_REQUESTS == 3

Min(a, b) == IF a <= b THEN a ELSE b
Max(a, b) == IF a >= b THEN a ELSE b

None == "None"

----------------------------------------------------------------------------
(* Response bodies.  A body is a page of the target; Simhash(body) is its  *)
(* 64-bit content fingerprint, given as the set of its 1 bits, and the     *)
(* distance of two fingerprints is their Hamming distance.                 *)

Bodies == {"home", "home_ad", "other", "err_fetch", "err_syntax", "blockpage", ""}

\* Simhash(body)
Simhash(body) ==
    CASE body = "home"       -> {}
      [] body = "home_ad"    -> {1, 2, 3}
      [] body = "other"      -> 1..8
      [] body = "err_fetch"  -> 9..20
      [] body = "err_syntax" -> 9..18
      [] body = "blockpage"  -> 30..50
      [] OTHER               -> {}

\* Simhash.distance
distance(h1, h2) == Cardinality((h1 \ h2) \cup (h2 \ h1))

\* the block-page keywords of _send_headless_request: "request blocked", "forbidden", "waf"
has_block_keyword(body) == body = "blockpage"

\* SQL_ERROR_PATTERNS, in table order, each with the dialect keyword its text contains
\* ("mysql", "ora-", "postgresql", "sqlsrv" or none)
SQL_ERROR_PATTERNS == <<
    [pat |-> "you have an error in your sql syntax", kw |-> ""],
    [pat |-> "warning: mysql_fetch_array()", kw |-> "mysql"],
    [pat |-> "supplied argument is not a valid mysql result resource", kw |-> "mysql"],
    [pat |-> "unknown column '[^']+' in 'where clause'", kw |-> ""],
    [pat |-> "unclosed quotation mark after the character string", kw |-> ""],
    [pat |-> "quoted string not properly terminated", kw |-> ""],
    [pat |-> "invalid column name", kw |-> ""],
    [pat |-> "ora-00933: sql command not properly ended", kw |-> "ora-"],
    [pat |-> "ora-01756: quoted string not properly terminated", kw |-> "ora-"],
    [pat |-> "ora-00942: table or view does not exist", kw |-> "ora-"],
    [pat |-> "ora-01400: cannot insert null into", kw |-> "ora-"],
    [pat |-> "postgresql query failed", kw |-> "postgresql"],
    [pat |-> "unterminated quoted string", kw |-> ""],
    [pat |-> "syntax error at or near", kw |-> ""],
    [pat |-> "invalid input syntax for type", kw |-> ""],
    [pat |-> "sqlite3.operationalerror", kw |-> ""],
    [pat |-> "no such column", kw |-> ""],
    [pat |-> "syntax error", kw |-> ""],
    [pat |-> "sql error", kw |-> ""],
    [pat |-> "syntax error", kw |-> ""],
    [pat |-> "invalid syntax", kw |-> ""],
    [pat |-> "incorrect syntax", kw |-> ""],
    [pat |-> "unclosed quote", kw |-> ""] >>

\* the error pages of the four named database systems and of SQLite, beside Bodies:
\*   err_quote   "Unclosed quotation mark after the character string ''."
\*   err_column  "Invalid column name 'x'."
\*   err_ora     "ORA-00933: SQL command not properly ended"
\*   err_pgfail  "PostgreSQL query failed: ERROR: syntax error at or near ..."
\*   err_pg      "ERROR: syntax error at or near ..."
\*   err_sqlite  "sqlite3.OperationalError: no such column: x"
\* (err_fetch is "Warning: mysql_fetch_array() ... SQL error", err_syntax is
\* "You have an error in your SQL syntax")
ErrorBodies == {"err_fetch", "err_syntax", "err_quote", "err_column", "err_ora",
                "err_pgfail", "err_pg", "err_sqlite"}

\* the database system under whose heading the table lists pattern idx (payloads.py
\* 14-37); None for the SQLite and the generic patterns
pattern_family(idx) ==
    IF idx \in 1..4 THEN "mysql"
    ELSE IF idx \in 5..7 THEN "mssql"
    ELSE IF idx \in 8..11 THEN "oracle"
    ELSE IF idx \in 12..15 THEN "postgresql"
    ELSE None

\* the patterns of the table that re.search finds in a body (their indexes)
matching_patterns(body) ==
    CASE body = "err_fetch"  -> {2, 19}
      [] body = "err_syntax" -> {1}
      [] body = "err_quote"  -> {5}
      [] body = "err_column" -> {7}
      [] body = "err_ora"    -> {8}
      [] body = "err_pgfail" -> {12, 14, 18, 20}
      [] body = "err_pg"     -> {14, 18, 20}
      [] body = "err_sqlite" -> {16, 17}
      [] OTHER               -> {}

\* the first matching pattern in table order (0: none), as the for ... break loop finds it
first_error_pattern(body) ==
    IF matching_patterns(body) = {} THEN 0
    ELSE CHOOSE i \in matching_patterns(body) : \A j \in matching_patterns(body) : i <= j

\* the dialect the first matching pattern yields (scanner.py 482-489)
inferred_dialect_of(idx) ==
    IF idx = 0 THEN None
    ELSE CASE SQL_ERROR_PATTERNS[idx].kw = "mysql"      -> "mysql"
           [] SQL_ERROR_PATTERNS[idx].kw = "ora-"       -> "oracle"
           [] SQL_ERROR_PATTERNS[idx].kw = "postgresql" -> "postgresql"
           [] SQL_ERROR_PATTERNS[idx].kw = "sqlsrv"     -> "mssql"
           [] OTHER                                     -> None

----------------------------------------------------------------------------
(* The rate limiter: Scanner._update_rate_limit_status *)

\* the delay after a 429/503: no ceiling (a faulty variant of backoff_after_rate_limit)
backoff_after_rate_limit_unbounded(delay) == delay * 2

\* new_delay = self.rate_limit_delay * 2; min(new_delay, MAX_BACKOFF_DELAY)
backoff_after_rate_limit(delay) == Min(delay * 2, MAX_BACKOFF_DELAY)

\* max(1.0, self.rate_limit_delay / 2)
backoff_after_clean_streak(delay) ==
    IF delay < 2 * MIN_BACKOFF_DELAY THEN MIN_BACKOFF_DELAY ELSE delay \div 2

is_rate_limited(status) == status \in {429, 503}

\* faulty variant: the limiter stays active when the delay is back at 1.0
update_rate_limit_status_stays_active(r, status, is_waf_block) ==
    IF is_rate_limited(status)
    THEN [active |-> TRUE, succ |-> 0, delay |-> backoff_after_rate_limit(r.delay)]
    ELSE IF r.active /\ ~is_waf_block
    THEN IF r.succ + 1 >= CLEAN_STREAK
         THEN [active |-> TRUE, succ |-> 0, delay |-> backoff_after_clean_streak(r.delay)]
         ELSE [r EXCEPT !.succ = r.succ + 1]
    ELSE r

\* _update_rate_limit_status(status, is_waf_block), as a function of the state
update_rate_limit_status(r, status, is_waf_block) ==
    IF is_rate_limited(status)
    THEN [active |-> TRUE, succ |-> 0, delay |-> backoff_after_rate_limit(r.delay)]
    ELSE IF r.active /\ ~is_waf_block
    THEN IF r.succ + 1 >= CLEAN_STREAK
         THEN [active |-> backoff_after_clean_streak(r.delay) # MIN_BACKOFF_DELAY,
               succ |-> 0,
               delay |-> backoff_after_clean_streak(r.delay)]
         ELSE [r EXCEPT !.succ = r.succ + 1]
    ELSE r

\* is_blocked of _send_headless_request
is_blocked(status, body) == status \in {403, 406} \/ has_block_keyword(body)

----------------------------------------------------------------------------
(* Payloads.  A payload is the sequence of its lexemes; an injected value  *)
(* is the sequence of the lexemes of the whole parameter value.            *)

\* Scanner.QUICK_SCAN_PAYLOADS
QUICK_SCAN_PAYLOADS == <<
    <<"'">>,
    <<"\"">>,
    <<"#">>,
    <<";">>,
    <<"'", ")">>,
    <<"'", ")", ")">>,
    <<"'", ")", ")", "--">>,
    <<"'", ")", ")", "-- ">>,
    <<"'", "OR", "1", "=", "1", "--">>,
    <<"\"", "OR", "1", "=", "1", "--">>,
    <<"'", "OR", "'1'", "=", "'1">>,
    <<"\"", "OR", "\"1\"", "=", "\"1">>,
    <<"'", "OR", "1", "=", "1", "#">>,
    <<"'", "OR", "1", "=", "1", "-- ">>,
    <<"'", "OR", "'x'", "=", "'x">> >>

\* the three injected values of one fuzz payload (scanner.py 576)
fuzz_injected_value(original_value, payload, variant) ==
    CASE variant = 1 -> <<original_value>> \o payload
      [] variant = 2 -> <<"sqlihunter">> \o payload
      [] OTHER       -> payload

\* _contextualize_string_payload (scanner.py 708-717, ast_payload_generator.py 155-166);
\* starts_with_semicolon is payload.strip().startswith(';')
starts_with_semicolon(payload) ==
    \E i \in 1..Len(payload) :
        /\ payload[i] = ";"
        /\ \A j \in 1..(i-1) : payload[j] = " "

contextualize_string_payload(payload, context) ==
    IF context \in {"HTML_ATTRIBUTE_SINGLE_QUOTED", "JS_STRING_SINGLE_QUOTED", "HTML_ATTRIBUTE"}
    THEN <<"'">> \o payload \o <<"-- ">>
    ELSE IF context \in {"HTML_ATTRIBUTE_DOUBLE_QUOTED", "JS_STRING_DOUBLE_QUOTED"}
    THEN <<"\"">> \o payload \o <<"-- ">>
    ELSE IF starts_with_semicolon(payload)
    THEN <<"'">> \o payload \o <<"-- ">>
    ELSE payload \o <<"-- ">>

(* The AST payload generator.  A sqlglot expression is a node with a type  *)
(* and the keyword arguments it was built with; Generator.sql serialises a *)
(* binary node from its arguments "this" and "expression", an argument     *)
(* that is absent giving the empty text.                                   *)

literal(text) == [type |-> "Literal", args |-> [this |-> text]]
boolean_true == [type |-> "Boolean", args |-> [this |-> "TRUE"]]

arg_sql(node, key) ==
    IF key \in DOMAIN node.args THEN node.args[key] ELSE <<"">>

binary_operator(type) ==
    CASE type = "EQ"   -> "="
      [] type = "Like" -> "LIKE"
      [] type = "And"  -> "AND"
      [] OTHER         -> "OR"

\* expression.sql(dialect=...) of a binary node whose arguments are already serialised
binary_sql(node) ==
    arg_sql(node, "this") \o <<binary_operator(node.type)>> \o arg_sql(node, "expression")

\* the (true, false) condition pairs of _generate_boolean_based (lines 110-113):
\* the right-hand literal is passed as the keyword "to"
boolean_conditions == <<
    << [type |-> "EQ",   args |-> [this |-> <<"1">>,   to |-> <<"1">>]],
       [type |-> "EQ",   args |-> [this |-> <<"1">>,   to |-> <<"2">>]] >>,
    << [type |-> "Like", args |-> [this |-> <<"'a'">>, to |-> <<"'a'">>]],
       [type |-> "Like", args |-> [this |-> <<"'a'">>, to |-> <<"'b'">>]] >> >>

logic_ops == <<"And", "Or">>

\* _build_sql: " " + expression.sql(), contextualised
build_sql(logic_op, cond, context) ==
    contextualize_string_payload(
        binary_sql([type |-> logic_op,
                    args |-> [this |-> <<"TRUE">>, expression |-> binary_sql(cond)]]),
        context)

\* _generate_boolean_based(context, tamper=False): the (true_sql, false_sql, family) list
generate_boolean_based(context) ==
    [k \in 1..4 |->
        LET c  == boolean_conditions[((k - 1) \div 2) + 1]
            op == logic_ops[((k - 1) % 2) + 1]
        IN  [true_sql  |-> build_sql(op, c[1], context),
             false_sql |-> build_sql(op, c[2], context),
             family    |-> IF op = "And" THEN "LOGICAL_AND" ELSE "LOGICAL_OR"]]

\* exp.Anonymous(this=name, params=[...]): a function call node; Generator.sql writes
\* the arguments found under the keyword "expressions"
anonymous(name, params) == [type |-> "Anonymous", args |-> [this |-> name, params |-> params]]

anonymous_sql(node) ==
    <<node.args.this, "(">>
        \o (IF "expressions" \in DOMAIN node.args THEN node.args.expressions ELSE <<>>)
        \o <<")">>

\* _generate_time_based(sleep_time, context) for the mysql dialect (lines 68-87): SLEEP
\* under AND and OR, then BENCHMARK under AND and OR, whose operands are passed as the
\* keywords "left" and "right"
generate_time_based(sleep_time, context) ==
    LET sleep_func == anonymous("SLEEP", <<ToString(sleep_time)>>)
        benchmark_expr == anonymous("BENCHMARK", <<ToString(sleep_time * 1000000), "MD5('1')">>)
    IN  [k \in 1..4 |->
            IF k <= 2
            THEN [sql    |-> contextualize_string_payload(
                                 binary_sql([type |-> logic_ops[k],
                                             args |-> [this |-> <<"TRUE">>,
                                                       expression |-> anonymous_sql(sleep_func)]]),
                                 context),
                  family |-> "MYSQL_SLEEP"]
            ELSE [sql    |-> contextualize_string_payload(
                                 binary_sql([type |-> logic_ops[k - 2],
                                             args |-> [left |-> <<"TRUE">>,
                                                       right |-> anonymous_sql(benchmark_expr)]]),
                                 context),
                  family |-> "MYSQL_BENCHMARK"]]

\* the dialect names the generator is asked for (AstPayloadGenerator.__init__ lowers
\* the name and takes "mysql" for none), and the names sqlglot knows its dialects by
Dialects == {"mysql", "postgresql", "mssql", "oracle", "sqlite", "unknown", None}
dialect_of(name) == IF name = None THEN "mysql" ELSE name
SqlglotDialects == {"mysql", "postgres", "tsql", "oracle", "sqlite"}

\* what a call gives: the list it returns, or the exception it raises
returns(payloads) == [raised |-> FALSE, payloads |-> payloads]
raises == [raised |-> TRUE, payloads |-> <<>>]

\* whether expression.sql(dialect=...) of _build_sql raises: sqlglot looks the name up
\* among its dialects and raises ValueError for a name it does not know
build_sql_raises(dialect) == dialect \notin SqlglotDialects

\* _generate_time_based(sleep_time, context) for every dialect (lines 48-89): mssql
\* gets one stacked WAITFOR string without sqlglot; sqlite a heavy subquery, the others
\* a SLEEP call, under AND and OR; mysql gets the BENCHMARK payloads too
time_based_of(dialect, sleep_time, context) ==
    IF dialect = "mssql"
    THEN returns(<< [sql    |-> contextualize_string_payload(
                                    <<";", "DECLARE @S VARCHAR(4000)", ";",
                                      "SET @S=CAST(0x..WAITFOR DELAY '0:0:", ToString(sleep_time),
                                      "' AS VARCHAR(4000))", ";", "EXEC(@S)", ";", "--">>,
                                    context),
                     family |-> "MSSQL_WAITFOR_OBFUSCATED"] >>)
    ELSE IF build_sql_raises(dialect)
    THEN raises
    ELSE IF dialect = "mysql"
    THEN returns(generate_time_based(sleep_time, context))
    ELSE LET sleep_sql == IF dialect = "sqlite"
                          THEN <<"(", "SELECT", "1", "WHERE", "LENGTH(HEX(RANDOMBLOB(n)))",
                                 ">", "0", ")", "IS", "NOT", "NULL">>
                          ELSE anonymous_sql(anonymous("SLEEP", <<ToString(sleep_time)>>))
         IN  returns([k \in 1..2 |->
                 [sql    |-> contextualize_string_payload(
                                 binary_sql([type |-> logic_ops[k],
                                             args |-> [this |-> <<"TRUE">>,
                                                       expression |-> sleep_sql]]),
                                 context),
                  family |-> IF dialect = "sqlite" THEN "SQLITE_SLEEP" ELSE "ORACLE_SLEEP"]])

\* _generate_boolean_based for every dialect: the four pairs, serialised by _build_sql
boolean_based_of(dialect, context) ==
    IF build_sql_raises(dialect) THEN raises ELSE returns(generate_boolean_based(context))

\* a collaborator URL is the sequence of its parts, "://" being one of them;
\* collaborator_url.split("://")[1] is what stands between the first "://" and the next
after_scheme(url) ==
    IF \E i \in 1..Len(url) : url[i] = "://"
    THEN LET i    == CHOOSE i \in 1..Len(url) : url[i] = "://" /\ \A j \in 1..(i-1) : url[j] # "://"
             rest == SubSeq(url, i + 1, Len(url))
         IN  IF \E j \in 1..Len(rest) : rest[j] = "://"
             THEN SubSeq(rest, 1, (CHOOSE j \in 1..Len(rest) :
                                      rest[j] = "://" /\ \A l \in 1..(j-1) : rest[l] # "://") - 1)
             ELSE rest
    ELSE url

\* _generate_oob(collaborator_url, context) (lines 130-153): the primitive of the
\* dialect, as a string, contextualised; no payload for a dialect without one
generate_oob(dialect, collaborator_url, context) ==
    LET host == after_scheme(collaborator_url)
        oob  == CASE dialect = "mssql" ->
                        [s |-> <<";", "EXEC", "master..xp_dirtree", "'\\\\">> \o host \o <<"\\a'">>,
                         family |-> "MSSQL_XP_DIRTREE"]
                  [] dialect = "postgresql" ->
                        [s |-> <<";", "COPY", "(SELECT '')", "TO", "PROGRAM", "'nslookup">>
                                   \o host \o <<"'">>,
                         family |-> "POSTGRES_COPY_PROGRAM"]
                  [] dialect = "oracle" ->
                        [s |-> <<"AND", "UTL_INADDR.GET_HOST_ADDRESS", "(", "'">> \o host
                                   \o <<"'", ")", "IS", "NOT", "NULL">>,
                         family |-> "ORACLE_UTL_INADDR"]
                  [] dialect = "mysql" ->
                        [s |-> <<"AND", "LOAD_FILE", "(", "'\\\\">> \o host \o <<"\\a'", ")">>,
                         family |-> "MYSQL_LOAD_FILE"]
                  [] OTHER -> [s |-> <<>>, family |-> ""]
    IN  IF oob.s # <<>>
        THEN returns(<< [sql    |-> contextualize_string_payload(oob.s, context),
                         family |-> oob.family] >>)
        ELSE returns(<<>>)

\* options = None, or a dict without the key
NoOptions == [key \in {} |-> <<>>]

has_collaborator_url(options) ==
    /\ "collaborator_url" \in DOMAIN options
    /\ options.collaborator_url # <<>>

\* AstPayloadGenerator(dialect).generate(payload_type, context, options), tamper off
\* (lines 173-194); options.get("collaborator_url") is falsy when the key is absent
\* and when the URL is the empty string
generate(dialect, payload_type, context, options) ==
    CASE payload_type = "TIME_BASED" ->
            time_based_of(dialect_of(dialect), 5, context)
      [] payload_type = "BOOLEAN_BASED" ->
            boolean_based_of(dialect_of(dialect), context)
      [] payload_type = "OOB" ->
            IF ~has_collaborator_url(options)
            THEN returns(<<>>)
            ELSE generate_oob(dialect_of(dialect), options.collaborator_url, context)
      [] OTHER -> returns(<<>>)

\* no call of the generator under way
NoCall ==
    [pc |-> "none", dialect |-> None, payload_type |-> "", context |-> "",
     options |-> NoOptions, out |-> returns(<<>>),
     raw |-> <<>>, wraps |-> 0, once |-> <<>>, twice |-> <<>>]

\* the ORDER BY probe of _union_based_scan (line 613)
break_out_chars == <<"'", "\"", "')">>

order_by_payload(prefix, i) ==
    <<prefix, "AND", "1", "=", "2", "ORDER", "BY", ToString(i), "-- ">>

\* the UNION SELECT probe (lines 637-642): column_count NULLs, the marker in column i + 1
union_payload(prefix, column_count, i) ==
    <<prefix, "AND", "1", "=", "2", "UNION", "SELECT">>
        \o [c \in 1..column_count |-> IF c = i + 1 THEN "CHAR(marker)" ELSE "NULL"]
        \o <<"-- ">>

\* whether value holds the lexemes of sub, in order and adjacent
contains(value, sub) ==
    \E k \in 0..(Len(value) - Len(sub)) :
        \A j \in 1..Len(sub) : value[k + j] = sub[j]

----------------------------------------------------------------------------
(* The anomaly score: Scanner._analyze_response_for_anomalies *)

\* weighted Aho-Corasick signature hits and the query-plan keywords in a body:
\* the pages of the model carry neither
signature_score(body) == 0
plan_hit(body) == FALSE

\* the score of the SQL fragments found in the body (ML, transformer and graph scorers)
response_model_score(body) == IF body = "err_syntax" THEN 960 ELSE 0

\* the payload's own AST graph score: no fuzz payload parses as a statement
payload_graph_score(payload) == 0

\* SideChannelCalibrator.normalize with a jitter below the model's time unit
normalize(duration) == Max(0, duration)

\* the part of the score that does not come from the content (other_score); vae is the
\* VAE's score of the simulated eBPF metrics, in 1/6400, which the code draws at random
other_score(baseline_status, response_status, baseline_time, response_time, vae) ==
      (IF response_status # baseline_status
       THEN (IF response_status >= 400 THEN 3200 ELSE 1280) ELSE 0)
    + (IF 2 * normalize(response_time) > 3 * normalize(baseline_time) THEN 1280 ELSE 0)
    + (vae * 4) \div 10

\* regex_score: the signature weights and 0.9 for the first SQL error pattern
regex_score(body) ==
    signature_score(body) + (IF first_error_pattern(body) # 0 THEN 5760 ELSE 0)

\* simhash_score = min(hash_distance / 64.0, 1.0), times the weight 0.3
simhash_term(baseline_hash, body) ==
    (3 * Min(100 * distance(baseline_hash, Simhash(body)), 6400)) \div 10

\* (anomaly score, inferred dialect)
analyze_response_for_anomalies(baseline_status, baseline_hash, response_status, response_body, baseline_time, response_time, vae, graph) ==
    IF response_body = ""
    THEN [score |-> 0, dialect |-> None]
    ELSE [score |-> Min(  other_score(baseline_status, response_status,
                                      baseline_time, response_time, vae)
                        + (IF plan_hit(response_body) THEN 1280 ELSE 0)
                        + regex_score(response_body) \div 2
                        + simhash_term(baseline_hash, response_body)
                        + (2 * (response_model_score(response_body) + (3 * graph) \div 10)) \div 10,
                        6400),
          dialect |-> inferred_dialect_of(first_error_pattern(response_body))]

----------------------------------------------------------------------------
(* The transport: what the target answers.  An answer is the body, the     *)
(* status, the duration and whether the body reflects the marker the       *)
(* request carried; exc is a transport failure (the request raised).       *)

answer(body, status, dur, reflect) ==
    [exc |-> FALSE, body |-> body, status |-> status, dur |-> dur, reflect |-> reflect]

failure == [exc |-> TRUE, body |-> "", status |-> 500, dur |-> 50, reflect |-> FALSE]

\* what the mock transports look for in a request
carries_sleep(value) == contains(value, <<"SLEEP", "(", "5", ")">>)
carries_contradiction(value) ==
    \/ contains(value, <<"1", "=", "2">>)
    \/ contains(value, <<"'a'", "LIKE", "'b'">>)
carries_tautology(value) ==
    \/ contains(value, <<"AND", "1", "=", "1">>)
    \/ contains(value, <<"'a'", "LIKE", "'a'">>)
carries_quote(value) == \E i \in 1..Len(value) : value[i] = "'"
order_by_index(value) ==
    IF \E i \in 1..ORDER_BY_LAST : contains(value, <<"ORDER", "BY", ToString(i)>>)
    THEN CHOOSE i \in 1..ORDER_BY_LAST : contains(value, <<"ORDER", "BY", ToString(i)>>)
    ELSE 0
\* the 1-based column of the select list that holds the marker (0: none)
marker_column(value) ==
    IF \E i \in 1..Len(value) : value[i] = "CHAR(marker)"
    THEN   (CHOOSE i \in 1..Len(value) : value[i] = "CHAR(marker)")
         - (CHOOSE i \in 1..Len(value) : value[i] = "SELECT")
    ELSE 0
carries_taint(value) == value = <<"sqlihunter_taint">>

\* the answers of the unconstrained target to one request
any_answers(req) ==
    IF req.kind = "baseline"
    THEN {answer("home", 200, 50, FALSE), answer("blockpage", 403, 50, FALSE),
          failure}
    ELSE {answer("home", 200, 50, FALSE), answer("home_ad", 200, 50, FALSE),
          answer("other", 200, 50, FALSE), answer("other", 500, 50, FALSE),
          answer("err_fetch", 500, 50, FALSE), answer("err_syntax", 500, 50, FALSE),
          answer("blockpage", 403, 50, FALSE), answer("", 200, 50, FALSE), failure}
         \cup (IF req.kind \in {"taint", "union"}
               THEN {answer("home", 200, 50, TRUE)} ELSE {})

\* the answer of a mock transport, a function of the request's content
mock_answer(tr, value) ==
    CASE tr.kind = "time" ->
            answer("home", 200, IF carries_sleep(value) THEN 5050 ELSE 50, FALSE)
      [] tr.kind = "bool_diff" ->
            answer(IF carries_contradiction(value) THEN "other" ELSE "home", 200, 50, FALSE)
      [] tr.kind = "bool_same" ->
            answer("home", 200, 50, FALSE)
      [] tr.kind = "union" ->
            IF order_by_index(value) > tr.K
            THEN answer("other", 200, 50, FALSE)
            ELSE answer("home", 200, 50, marker_column(value) = tr.K)
      [] tr.kind = "sqlerr" ->
            IF carries_quote(value)
            THEN answer("err_fetch", 500, 50, FALSE)
            ELSE answer("home", 200, 50, FALSE)
      [] OTHER ->  \* "blind"
            IF carries_contradiction(value) THEN answer("other", 200, 50, FALSE)
            ELSE IF carries_tautology(value) THEN answer("home", 200, 50, FALSE)
            ELSE IF carries_quote(value) THEN answer("err_syntax", 500, 50, FALSE)
            ELSE answer("home", 200, 50, carries_taint(value))

answers(req) ==
    IF transport.kind = "any"
    THEN any_answers(req)
    ELSE {mock_answer(transport, req.value)}

----------------------------------------------------------------------------
(* The tamper selector (tamper.py).  A chain is the sequence of its tamper *)
(* names.  A value is a rational number, the pair of its numerator and its *)
(* positive denominator in lowest terms: the code's floats are taken as    *)
(* the reals they stand for.                                               *)

RECURSIVE gcd(_, _)
gcd(a, b) == IF b = 0 THEN a ELSE gcd(b, a % b)

abs(x) == IF x < 0 THEN -x ELSE x

\* the rational p / q, q # 0, in lowest terms
rational(p, q) ==
    LET g == gcd(abs(p), abs(q))
        sign == IF q < 0 THEN -1 ELSE 1
    IN  [p |-> sign * (p \div g), q |-> sign * (q \div g)]

less_than(x, y) == x.p * y.q < y.p * x.q

\* WAF_TTP (lines 75-79)
WAF_TTP(waf_name) ==
    CASE waf_name = "Cloudflare" -> << <<"versionedkeywords">>, <<"space2randomblank", "randomcase">> >>
      [] waf_name = "AWS WAF" -> << <<"space2comment">> >>
      [] waf_name = "Imperva (Incapsula)" -> << <<"urlencode", "randomcase">> >>
      [] OTHER -> <<>>

\* self.chains of a new selector (lines 89-93)
default_chains == <<
    <<>>, <<"space2comment">>, <<"randomcase", "space2comment">>, <<"versionedkeywords">>,
    <<"space2randomblank", "randomcase">>, <<"equaltolike">>,
    <<"hexencodekeywords", "addnullbyte">>, <<"chardoubleencode">> >>

in_seq(x, seq) == \E i \in 1..Len(seq) : seq[i] = x

\* the keys of TAMPER_FUNCTIONS (lines 45-60): the names whose entry is not commented out
TAMPER_FUNCTIONS ==
    {"space2comment", "randomcase", "equaltolike", "versionedkeywords",
     "keywordsubstitution", "splitkeywords", "functionsynonyms", "commentaroundkeywords"}

\* apply_tampers(payload, tamper_list): the payload with the tamper functions that were
\* applied to it, in order; a name TAMPER_FUNCTIONS.get does not find is passed over
apply_tampers(payload, tamper_list) ==
    [payload |-> payload,
     applied |-> SelectSeq(tamper_list, LAMBDA tamper_name : tamper_name \in TAMPER_FUNCTIONS)]

\* self.chains.append(chain) if chain not in self.chains
with_chain(chains, chain) == IF in_seq(chain, chains) THEN chains ELSE Append(chains, chain)

\* self.stats is a dict in insertion order: the sequence of its entries
stat_index(stats, chain) ==
    IF \E i \in 1..Len(stats) : stats[i].chain = chain
    THEN CHOOSE i \in 1..Len(stats) : stats[i].chain = chain
    ELSE 0

\* self.stats[chain], which enters {'value': 0.0, 'count': 0} for a chain without entry
with_stat(stats, chain) ==
    IF stat_index(stats, chain) # 0 THEN stats
    ELSE Append(stats, [chain |-> chain, value |-> rational(0, 1), count |-> 0])

RECURSIVE primed(_, _, _)
\* the priming loop of __init__ (lines 98-105) from TTP chain number k on
primed(s, ttp, k) ==
    IF k > Len(ttp) THEN s
    ELSE LET stats == with_stat(s.stats, ttp[k])
             i     == stat_index(stats, ttp[k])
         IN  primed([s EXCEPT !.chains = with_chain(s.chains, ttp[k]),
                              !.stats = [stats EXCEPT ![i].value = rational(1, 2),
                                                      ![i].count = 1]],
                    ttp, k + 1)

\* TamperSelector(waf_name, epsilon); epsilon in hundredths
TamperSelector(waf_name, epsilon) ==
    primed([epsilon |-> epsilon, chains |-> default_chains, stats |-> <<>>],
           WAF_TTP(waf_name), 1)

\* faulty variant: the divisor is the count before the update
incremental_mean_late(value, reward, count) ==
    rational(value.p * (count + 2) + (reward * value.q - value.p), value.q * (count + 2))

\* value + (reward - value) / (count + 1) (line 133)
incremental_mean(value, reward, count) ==
    rational(value.p * (count + 1) + (reward * value.q - value.p), value.q * (count + 1))

\* update_stats(chain, reward) (lines 124-136)
update_stats(s, chain, reward) ==
    LET stats == with_stat(s.stats, chain)
        i     == stat_index(stats, chain)
    IN  [s EXCEPT !.chains = with_chain(s.chains, chain),
                  !.stats = [stats EXCEPT
                                ![i].value = incremental_mean(stats[i].value, reward, stats[i].count),
                                ![i].count = stats[i].count + 1]]

\* max(self.stats, key=value): the first entry, in insertion order, that no entry exceeds
best_chain(stats) ==
    LET i == CHOOSE i \in 1..Len(stats) :
                 /\ \A j \in 1..Len(stats) : ~less_than(stats[i].value, stats[j].value)
                 /\ \A j \in 1..(i-1) : less_than(stats[j].value, stats[i].value)
    IN  stats[i].chain

\* the chains select_chain() can return (lines 107-122): explore tells whether
\* random.random() fell below epsilon
select_chain(s, explore) ==
    IF explore \/ s.stats = <<>>
    THEN {s.chains[i] : i \in 1..Len(s.chains)}
    ELSE {best_chain(s.stats)}

\* no selector built
NoSelector ==
    [s |-> [epsilon |-> 0, chains |-> <<>>, stats |-> <<>>],
     seeded |-> {}, given |-> <<>>, updates |-> 0, last |-> [chain |-> <<>>, reward |-> 0],
     selected |-> [has |-> FALSE, explore |-> FALSE, chain |-> <<>>]]

----------------------------------------------------------------------------
(* deduplicate_vulnerabilities (main.py 28-38).  A type text is the        *)
(* sequence of its parts, "(", ")" and " " being parts of their own.        *)

\* text.split('(')[0]
before_paren(text) ==
    IF in_seq("(", text)
    THEN SubSeq(text, 1, (CHOOSE i \in 1..Len(text) :
                             text[i] = "(" /\ \A j \in 1..(i-1) : text[j] # "(") - 1)
    ELSE text

RECURSIVE strip(_)
\* text.strip()
strip(text) ==
    IF text = <<>> THEN text
    ELSE IF Head(text) = " " THEN strip(Tail(text))
    ELSE IF text[Len(text)] = " " THEN strip(SubSeq(text, 1, Len(text) - 1))
    ELSE text

\* faulty variant: the whole type text
vuln_type_whole(type) == type

\* vuln['type'].split('(')[0].strip()
vuln_type_general(type) == strip(before_paren(type))

\* (vuln['url'], vuln.get('parameter'), vuln_type_general)
signature(vuln) == <<vuln.url, vuln.parameter, vuln_type_general(vuln.type)>>

\* no call under way
NoDedup == [vulnerabilities |-> <<>>, i |-> 0, seen_signatures |-> {}, unique_vulns |-> <<>>,
            returned |-> FALSE, kept |-> <<>>]

----------------------------------------------------------------------------
(* The WAF detector (waf_detector.py).  A signature entry names the header *)
(* patterns, cookie prefixes and body patterns of a WAF, its TLS            *)
(* fingerprint, its delay threshold and its HTTP/2 settings; a pattern is   *)
(* the token it finds, and the features hold the tokens of the response.    *)
(* Scores are in halves (1.0 = 2).                                          *)

\* the signature entries, in the order of the dict: the entry of test_waf_tls.py and
\* an entry with every kind of signal
signature_names == <<"TestJA3", "EdgeWAF">>

waf_signatures(min_matches) ==
    [name \in {"TestJA3", "EdgeWAF"} |->
        IF name = "TestJA3"
        THEN [headers |-> {}, cookies |-> {}, body |-> {}, ja3 |-> "abcd1234",
              delay_threshold |-> 0, h2_settings |-> {}, min_matches |-> min_matches[name]]
        ELSE [headers |-> {"server: edgewaf"}, cookies |-> {"__edge"},
              body |-> {"attention required"}, ja3 |-> None,
              delay_threshold |-> 3, h2_settings |-> {"max_concurrent_streams=128"},
              min_matches |-> min_matches[name]]]

\* the signals of entry sig that the features match, kind by kind, as predict tests them
\* (lines 60-82); the HTTP/2 settings count once
matched_signals(sig, features) ==
    [headers |-> Cardinality(sig.headers \cap features.headers),
     cookies |-> Cardinality(sig.cookies \cap features.cookies),
     body    |-> Cardinality(sig.body \cap features.body),
     ja3     |-> IF sig.ja3 # None /\ sig.ja3 = features.ja3 THEN 1 ELSE 0,
     delay   |-> IF sig.delay_threshold # 0 /\ features.delay_ratio > sig.delay_threshold
                 THEN 1 ELSE 0,
     h2      |-> IF sig.h2_settings \cap features.h2_features # {} THEN 1 ELSE 0]

\* the score predict gives an entry: 1.0 a header, cookie or body match, 2.0 the TLS
\* fingerprint, 1.5 the delay, 2.0 the HTTP/2 settings
signal_score(m) ==
    2 * (m.headers + m.cookies + m.body) + 4 * m.ja3 + 3 * m.delay + 4 * m.h2

RECURSIVE best_signature(_, _, _, _)
\* the loop of GradientBoostClassifier.predict from entry k on: the first entry with
\* the highest score above best_score
best_signature(signatures, features, k, best) ==
    IF k > Len(signature_names) THEN best
    ELSE LET name  == signature_names[k]
             score == signal_score(matched_signals(signatures[name], features))
         IN  best_signature(signatures, features, k + 1,
                            IF score > best.score THEN [name |-> name, score |-> score]
                            ELSE best)

\* faulty variant: the best entry is returned whatever its score
predict_unbarred(features, signatures) ==
    best_signature(signatures, features, 1, [name |-> None, score |-> 0]).name

\* GradientBoostClassifier.predict(features, signatures) (lines 56-88)
predict(features, signatures) ==
    LET best == best_signature(signatures, features, 1, [name |-> None, score |-> 0])
    IN  IF best.score >= 4 THEN best.name ELSE None

\* WafDetector._predict_waf(features) (lines 203-214); gnn_agrees tells whether there
\* is no GNN model or its score reaches 0.1
predict_waf(features, signatures, gnn_agrees) ==
    IF features.body = {} THEN None
    ELSE IF predict(features, signatures) # None /\ gnn_agrees
    THEN predict(features, signatures)
    ELSE None

\* no call under way
NoDetection ==
    [pc |-> "none", min_matches |-> <<>>,
     features |-> [headers |-> {}, cookies |-> {}, body |-> {}, ja3 |-> None,
                   delay_ratio |-> 0, h2_features |-> {}],
     prediction |-> None, waf_name |-> None]

----------------------------------------------------------------------------
(* One call of Scanner._analyze_response_for_anomalies *)

NoAnalysis ==
    [pc |-> "none", baseline_status |-> 0, baseline_body |-> "", response_status |-> 0,
     response_body |-> "", vae |-> 0, score |-> 0, inferred_dialect |-> None]

----------------------------------------------------------------------------
(* DistributedOrchestrator with the zmq backend.  send_metric pushes the   *)
(* metric on a fresh PUSH socket connected to the orchestrator's PULL      *)
(* socket; the listener task receives from the PULL socket, appends to     *)
(* self.metrics and rewrites the report file; run gathers the agents,      *)
(* sleeps 0.1 s, cancels the listener and returns self.metrics.            *)

\* the agents given to run, and the most metrics one agent sends
Agents == {1, 2}
MaxMetrics == 2

NoOrchestrator ==
    [pc |-> "none", todo |-> [a \in Agents |-> 0], sent |-> <<>>, pipe |-> <<>>,
     metrics |-> <<>>, report_written |-> FALSE, report |-> <<>>, slept |-> FALSE,
     returned |-> <<>>]

\* send_metric (zmq): the metric is pushed to the PULL socket
send_metric(o, metric) ==
    [o EXCEPT !.sent = Append(@, metric), !.pipe = Append(@, metric)]

\* one round of _listener: recv_json, append, rewrite the report file.  The file is
\* written in the event loop's thread: a round made while run sleeps takes of its time
listener_round(o) ==
    [o EXCEPT !.pipe = Tail(@), !.metrics = Append(@, Head(o.pipe)),
              !.report_written = TRUE, !.report = Append(o.metrics, Head(o.pipe)),
              !.slept = (o.pc = "sleep")]

----------------------------------------------------------------------------
(* RLPayloadGenerator: the Q-table of the techniques and choose.  A        *)
(* technique is a dict with a name; the Q-values are exact rationals       *)
(* (learning_rate is 1/10).                                                *)

\* the most update calls of one generator
MaxLearned == 3

TechniqueNames == {"A", "B", "C"}

\* self.q_table: the names it holds and their values
EmptyQTable == [known |-> {}, q |-> [n \in TechniqueNames |-> rational(0, 1)]]

\* self.q_table.get(name, 0.0)
q_value(q_table, name) ==
    IF name \in q_table.known THEN q_table.q[name] ELSE rational(0, 1)

\* update(technique, reward): current + learning_rate * (reward - current)
update(q_table, technique, reward) ==
    LET current == q_value(q_table, technique)
    IN  [known |-> q_table.known \cup {technique},
         q |-> [q_table.q EXCEPT ![technique] =
                    rational(9 * current.p + reward * current.q, 10 * current.q)]]

\* self.q_table.setdefault(tech["name"], 0.0) for every technique given
with_defaults(q_table, techniques) ==
    LET names == {techniques[k].name : k \in 1..Len(techniques)}
    IN  [known |-> q_table.known \cup names,
         q |-> [n \in TechniqueNames |->
                    IF n \in names \ q_table.known THEN rational(0, 1) ELSE q_table.q[n]]]

\* tech put into a list that is sorted by falling value, behind every technique whose
\* value is not below its own
RECURSIVE insert_by_value(_, _, _)
insert_by_value(sorted_list, tech, q_table) ==
    IF sorted_list = <<>> THEN <<tech>>
    ELSE IF less_than(q_value(q_table, Head(sorted_list).name), q_value(q_table, tech.name))
    THEN <<tech>> \o sorted_list
    ELSE <<Head(sorted_list)>> \o insert_by_value(Tail(sorted_list), tech, q_table)

RECURSIVE sorted_prefix(_, _, _)
sorted_prefix(techniques, k, q_table) ==
    IF k = 0 THEN <<>>
    ELSE insert_by_value(sorted_prefix(techniques, k - 1, q_table), techniques[k], q_table)

\* faulty variant: sorted without reverse=True (rising values)
RECURSIVE sorted_rising(_, _)
sorted_rising(techniques, q_table) ==
    IF techniques = <<>> THEN <<>>
    ELSE LET rest == sorted_rising(Tail(techniques), q_table)
             t    == Head(techniques)
             low  == {k \in 1..Len(rest) :
                        less_than(q_value(q_table, rest[k].name), q_value(q_table, t.name))}
         IN  SubSeq(rest, 1, Cardinality(low)) \o <<t>>
                \o SubSeq(rest, Cardinality(low) + 1, Len(rest))

\* sorted(techniques, key=lambda t: self.q_table[t["name"]], reverse=True): a stable
\* sort, techniques of equal value keep their order
sorted_by_value(techniques, q_table) ==
    sorted_prefix(techniques, Len(techniques), q_table)

\* the orders random.shuffle can leave a list in
shuffles(techniques) ==
    {[k \in 1..Len(techniques) |-> techniques[f[k]]] :
        f \in {g \in [1..Len(techniques) -> 1..Len(techniques)] :
                  \A a, b \in 1..Len(techniques) : a # b => g[a] # g[b]}}

\* choose(techniques): what it may return (explore: random.random() < self.epsilon)
choose(q_table, techniques, explore) ==
    IF explore THEN shuffles(techniques)
    ELSE {sorted_by_value(techniques, with_defaults(q_table, techniques))}

NoGenerator ==
    [pc |-> "none", epsilon |-> 0, q_table |-> EmptyQTable, updates |-> 0,
     techniques |-> <<>>, ordered |-> <<>>]

----------------------------------------------------------------------------
(* PolymorphicEngine._apply_grammar.  A payload is a sequence of lexemes,  *)
(* a grammar token such as <id> is one lexeme; the grammar is the sequence *)
(* of its items in dict order, each a token with its expansions; a taint   *)
(* map is the sequence of its items.                                       *)

\* the first position of token in payload (0: token not in payload)
first_occurrence(payload, token) ==
    IF \A k \in 1..Len(payload) : payload[k] # token THEN 0
    ELSE CHOOSE k \in 1..Len(payload) :
            payload[k] = token /\ \A j \in 1..(k - 1) : payload[j] # token

\* payload.replace(token, replacement, 1)
replace_first(payload, token, replacement) ==
    LET k == first_occurrence(payload, token)
    IN  IF k = 0 THEN payload
        ELSE SubSeq(payload, 1, k - 1) \o replacement \o SubSeq(payload, k + 1, Len(payload))

\* token in taint_map
in_taint_map(taint_map, token) == \E k \in 1..Len(taint_map) : taint_map[k].token = token

\* taint_map.get(token)
taint_value(taint_map, token) ==
    taint_map[CHOOSE k \in 1..Len(taint_map) : taint_map[k].token = token].value

\* taint_map.get(token) if taint_map and token in taint_map else
\* random.choice(expansions): the texts the replacement can be
replacements(token, expansions, taint_map) ==
    IF in_taint_map(taint_map, token) THEN {taint_value(taint_map, token)}
    ELSE {expansions[k] : k \in 1..Len(expansions)}

\* the position of the for loop over grammar.items() after item k is done with
next_item(e, k) ==
    IF k < Len(e.grammar) THEN [e EXCEPT !.k = k + 1]
    ELSE [e EXCEPT !.pc = "expanded", !.k = 0]

NoExpansion ==
    [pc |-> "none", payload |-> <<>>, grammar |-> <<>>, taint_map |-> <<>>, k |-> 0,
     drawn |-> {}]

----------------------------------------------------------------------------
(* MockFirecrackerManager: the pool of free IP addresses (a list) and the  *)
(* running VMs (a dict by VM id).  An address 192.168.1.(100 + i) is the   *)
(* number i; a VM id, the head of a fresh uuid4, is a number never given   *)
(* before.                                                                 *)

\* num_vms of the manager, and the number of agents passed to run
NumVMs == 2
MaxAgents == 3

\* self._pool after __init__
initial_pool == [i \in 1..NumVMs |-> i - 1]

\* vm_id in self._vms
is_running(m, vm_id) == \E vm \in m.vms : vm.id = vm_id

\* provision_vm() with a pool that is not empty: the first address leaves the pool
provision_vm(m, vm_id) ==
    [pool |-> Tail(m.pool), vms |-> m.vms \cup {[id |-> vm_id, ip |-> Head(m.pool)]}]

\* faulty variant: the address goes back to the pool, the VM stays in the dict
deprovision_vm_kept(m, vm_id) ==
    IF is_running(m, vm_id)
    THEN [m EXCEPT !.pool = Append(@, (CHOOSE vm \in m.vms : vm.id = vm_id).ip)]
    ELSE m

\* deprovision_vm(vm_id): a VM that is not in the dict is left alone
deprovision_vm(m, vm_id) ==
    IF is_running(m, vm_id)
    THEN LET vm == CHOOSE v \in m.vms : v.id = vm_id
         IN  [pool |-> Append(m.pool, vm.ip), vms |-> m.vms \ {vm}]
    ELSE m

NoManager ==
    [pc |-> "none", m |-> [pool |-> <<>>, vms |-> {}], agents |-> 0,
     task |-> [a \in 1..MaxAgents |-> [pc |-> "none", vm_id |-> 0, executed |-> 0]],
     issued |-> 0, again |-> 0]

----------------------------------------------------------------------------
(* Target items and the worker's record *)

NoItem == [type |-> "none", url |-> "", inputs |-> <<>>]

\* {"type": "url", ...}: a crawled URL with a query string (crawler.py 122-123)
UrlItem == [type |-> "url", url |-> "/item?id=1",
            inputs |-> << [name |-> "id", type |-> "query", value |-> "1"] >>]

\* {"type": "form", ...}: a form of the same page (crawler.py 132-137)
FormItem == [type |-> "form", url |-> "/item?id=1",
             inputs |-> << [name |-> "id",   type |-> "text",   value |-> "1"],
                           [name |-> "csrf", type |-> "hidden", value |-> "x"],
                           [name |-> "q",    type |-> "search", value |-> ""] >>]

\* {"type": "api", ...}: an endpoint seen by the request interceptor (crawler.py 44-51),
\* a POST whose post_data is the JSON text {"id": "1"}
ApiItem == [type |-> "api", url |-> "/api/items",
            inputs |-> << [name |-> "id", type |-> "json", value |-> "1"] >>]

Items == {UrlItem, FormItem, ApiItem}

\* Spec: the items of the one page the crawler visits, which share the parameter id
PageItems == {UrlItem, FormItem}

testable_input_types == {"text", "textarea", "password", "email", "search", "url", "tel"}

\* the indexes of the inputs scan_target tests, in order
is_tested(item, i) ==
    /\ item.inputs[i].name # ""
    /\ item.type = "form" => item.inputs[i].type \in testable_input_types

\* the first tested input after index i (0: none)
next_param(item, i) ==
    IF \E j \in (i+1)..Len(item.inputs) : is_tested(item, j)
    THEN CHOOSE j \in (i+1)..Len(item.inputs) :
            /\ is_tested(item, j)
            /\ \A k \in (i+1)..(j-1) : ~is_tested(item, k)
    ELSE 0

NoBaseline == [ok |-> FALSE, status |-> 500, time |-> 0, body |-> ""]

\* a worker between two scans; stored and success describe its last scan_target call,
\* log is what scanner_worker printed about it ("": nothing)
IdleWorker ==
    [pc |-> "idle", item |-> NoItem, pidx |-> 0, n |-> 0, v |-> 0,
     timings |-> <<>>, base |-> NoBaseline, context |-> "", true_body |-> "",
     prefix |-> 0, column_count |-> -1, fuzz_value |-> <<>>,
     stored |-> 0, success |-> FALSE, log |-> ""]

param_name(r) == r.item.inputs[r.pidx].name
original_value(r) == r.item.inputs[r.pidx].value

\* the WAF names check_waf can give (None: no WAF found) and WAF_TEMPO_MAP.get(waf_name, 0)
\* in 1/16 s
WafNames == {None, "Cloudflare", "AWS WAF", "Imperva (Incapsula)"}

static_request_delay(waf_name) ==
    CASE waf_name = "Cloudflare"          -> 24
      [] waf_name = "AWS WAF"             -> 8
      [] waf_name = "Imperva (Incapsula)" -> 16
      [] OTHER                            -> 0

\* how long _send_headless_request waits before it hands the request to the transport,
\* in 1/16 s: nothing stands between its entry and asyncio.to_thread, whatever the
\* static delay and the rate-limit state
pre_request_delay(static_delay, r) == 0

\* a request on its way; waited is the delay that preceded its sending
request(w, r, kind, value) ==
    [w |-> w, kind |-> kind, url |-> r.item.url,
     param |-> IF kind = "baseline" THEN "" ELSE param_name(r), value |-> value,
     waited |-> pre_request_delay(static_request_delay(transport.waf), rl)]

\* what one step of a worker does: its new record, the request it sends, the findings
\* it reports
outcome(r, send, report) == [wk |-> r, send |-> send, report |-> report]

\* scan_target returns (and scanner_worker calls task_done)
finish(r) ==
    outcome([IdleWorker EXCEPT !.stored = r.stored, !.success = r.success], {}, <<>>)

\* faulty variant: the exception escapes scanner_worker and ends the worker task
raised_ends_worker(r) ==
    outcome([IdleWorker EXCEPT !.pc = "stopped", !.stored = r.stored, !.log = "error"], {}, <<>>)

\* scan_target raises: scanner_worker catches the exception, prints it and calls
\* task_done (main.py 52-56)
raised(r) ==
    outcome([IdleWorker EXCEPT !.stored = r.stored, !.log = "error"], {}, <<>>)

\* faulty variant: the item is never marked done
task_done_forgotten(q) == q

\* faulty variant: the item is marked done twice
task_done_twice(q) == [q EXCEPT !.unfinished = @ - 2]

\* queue.task_done()
task_done(q) == [q EXCEPT !.unfinished = @ - 1]

\* statistics.median of one to three timings
median(timings) ==
    IF Len(timings) = 1 THEN timings[1]
    ELSE IF Len(timings) = 2 THEN (timings[1] + timings[2]) \div 2
    ELSE CHOOSE m \in {timings[1], timings[2], timings[3]} :
            /\ Cardinality({i \in 1..3 : timings[i] <= m}) >= 2
            /\ Cardinality({i \in 1..3 : timings[i] >= m}) >= 2

vuln_info(r, type, payload, chain, dialect, union_info) ==
    [url |-> r.item.url, type |-> type, parameter |-> param_name(r), payload |-> payload,
     tamper_chain |-> chain, dialect |-> dialect, union_info |-> union_info]

NoUnionInfo == [column_count |-> -1, prefix |-> "", marker_col |-> -1]

----------------------------------------------------------------------------
(* Scanner.scan_target, technique by technique *)

\* _boolean_based_ast_scan, pair k: the TRUE request
start_ast_pair(w, r, k) ==
    outcome([r EXCEPT !.pc = "ast_true", !.n = k, !.v = 0, !.true_body = "",
                      !.prefix = 0, !.column_count = -1, !.fuzz_value = <<>>,
                      !.context = ""],
            {request(w, r, "ast_true",
                     generate_boolean_based("HTML_ATTRIBUTE_SINGLE_QUOTED")[k].true_sql)},
            <<>>)

\* _union_based_scan: the ORDER BY probe i with break-out prefix p
start_order_by(w, r, p, i) ==
    outcome([r EXCEPT !.pc = "order_by", !.prefix = p, !.n = i, !.v = 0,
                      !.column_count = -1, !.fuzz_value = <<>>, !.context = "",
                      !.true_body = ""],
            {request(w, r, "order_by",
                     <<original_value(r)>> \o order_by_payload(break_out_chars[p], i))},
            <<>>)

\* _fuzz_parameter_for_anomalies: payload n, injected value v
start_fuzz(w, r, n, v) ==
    outcome([r EXCEPT !.pc = "fuzz", !.n = n, !.v = v, !.context = "", !.true_body = "",
                      !.fuzz_value = <<>>],
            {request(w, r, "fuzz",
                     fuzz_injected_value(original_value(r), QUICK_SCAN_PAYLOADS[n], v))},
            <<>>)

\* the loop over the parameters (scanner.py 739-755, 765-779): the parameter after
\* index i, or the end of scan_target
start_param(w, r, i) ==
    IF next_param(r.item, i) = 0
    THEN finish(r)
    ELSE start_fuzz(w, [r EXCEPT !.pidx = next_param(r.item, i)], 1, 1)

\* is_ast_vuln is False: the next parameter
after_ast_scan(w, r) == start_param(w, r, r.pidx)

\* is_union_vuln is False: the AST boolean scan
after_union_scan(w, r) == start_ast_pair(w, r, 1)

\* is_vuln is False: the UNION scan
after_fuzz(w, r) == start_order_by(w, r, 1, 1)

\* a technique reported a finding and returned True, but scan_target goes on
\* (a faulty variant of after_success)
after_success_goes_on(w, r, info) ==
    [after_fuzz(w, [r EXCEPT !.success = TRUE]) EXCEPT !.report = <<info>>]

\* a technique reported a finding and returned True: scan_target returns
after_success(w, r, info) ==
    [finish([r EXCEPT !.success = TRUE]) EXCEPT !.report = <<info>>]

\* the next injected value of the fuzz pass, or its end (return False)
next_fuzz(w, r) ==
    IF r.v < 3 THEN start_fuzz(w, r, r.n, r.v + 1)
    ELSE IF r.n < limits.payloads THEN start_fuzz(w, r, r.n + 1, 1)
    ELSE after_fuzz(w, r)

\* faulty variant: the probing ends after the first break-out prefix
next_order_by_one_prefix(w, r) ==
    IF r.n < limits.order_by THEN start_order_by(w, r, r.prefix, r.n + 1)
    ELSE after_union_scan(w, r)

\* the next ORDER BY probe, or the end of the probing with no column count
next_order_by(w, r) ==
    IF r.n < limits.order_by THEN start_order_by(w, r, r.prefix, r.n + 1)
    ELSE IF r.prefix < Len(break_out_chars) THEN start_order_by(w, r, r.prefix + 1, 1)
    ELSE after_union_scan(w, r)

\* the UNION SELECT probe with the marker in column i + 1
start_union(w, r, i) ==
    outcome([r EXCEPT !.pc = "union", !.n = i],
            {request(w, r, "union",
                     <<original_value(r)>>
                        \o union_payload(break_out_chars[r.prefix], r.column_count, i))},
            <<>>)

\* the column count the divergence at ORDER BY i gives (a faulty variant of
\* column_count_found): the index itself
column_count_found_off_by_one(i) == i

\* column_count = i - 1
column_count_found(i) == i - 1

\* the ORDER BY probe i diverged from the baseline (scanner.py 626-635)
after_divergence(w, r) ==
    IF column_count_found(r.n) <= 0
    THEN after_union_scan(w, r)
    ELSE start_union(w, [r EXCEPT !.column_count = column_count_found(r.n)], 0)

next_union(w, r) ==
    IF r.n + 1 < r.column_count THEN start_union(w, r, r.n + 1)
    ELSE after_union_scan(w, r)

next_ast_pair(w, r) ==
    IF r.n < Len(generate_boolean_based("HTML_ATTRIBUTE_SINGLE_QUOTED")) THEN start_ast_pair(w, r, r.n + 1) ELSE after_ast_scan(w, r)

----------------------------------------------------------------------------
(* The shared result set: Scanner._report_vulnerability.  The body of      *)
(* "async with self.lock" holds no suspension point and the lock is free   *)
(* whenever a coroutine reaches it, so the check and the append are one    *)
(* step of the coroutine that reports.                                     *)

\* no check at all (a faulty variant of already_reported)
already_reported_never(points, url, param) == FALSE

\* any(v['url'] == url and v['parameter'] == param for v in self.vulnerable_points)
already_reported(points, url, param) ==
    \E i \in 1..Len(points) : points[i].url = url /\ points[i].parameter = param

report_vulnerability(points, info) ==
    IF already_reported(points, info.url, info.parameter)
    THEN points
    ELSE Append(points, info)

\* what _send_headless_request returns for an answer (scanner.py 377-392)
returned(a) ==
    IF a.exc
    THEN [body |-> "", dur |-> a.dur, blocked |-> FALSE, status |-> 500, reflect |-> FALSE]
    ELSE [body |-> a.body, dur |-> a.dur, blocked |-> is_blocked(a.status, a.body),
          status |-> a.status, reflect |-> a.reflect]

\* the rate-limit state after _send_headless_request got the answer a: a request that
\* raised leaves it alone (scanner.py 377-392)
after_response(r, a) ==
    IF a.exc THEN r
    ELSE update_rate_limit_status(r, a.status, is_blocked(a.status, a.body))

\* the answer a to request req reaches worker w, whose step has the outcome out
Deliver(w, req, a, out) ==
    LET points == IF out.report = <<>> THEN vulnerable_points
                  ELSE report_vulnerability(vulnerable_points, out.report[1])
    IN  /\ vulnerable_points' = points
        /\ wk' = [wk EXCEPT ![w] =
                    [out.wk EXCEPT !.stored = @ + Len(points) - Len(vulnerable_points)]]
        /\ net' = (net \ {req}) \cup out.send
        /\ rl' = after_response(rl, a)
        /\ run' = IF out.wk.pc = "idle" THEN task_done(run) ELSE run
        /\ UNCHANGED <<queue, produced, transport, limits, handled, gen, sel, dd, wafdet, analysis, orch, rlgen, pe, fc>>

----------------------------------------------------------------------------
(* Actions *)

\* the crawler puts a target item on the queue.  A page is crawled once (visited_urls,
\* crawler.py 58-60), so its url item and each of its forms are queued once
Enqueue ==
    /\ run.pc = "crawling"
    /\ \E it \in PageItems \ produced :
        /\ queue' = Append(queue, it)
        /\ produced' = produced \cup {it}
    /\ run' = [run EXCEPT !.unfinished = @ + 1]
    /\ UNCHANGED <<wk, net, vulnerable_points, rl, transport, limits, handled, gen, sel, dd, wafdet, analysis, orch, rlgen, pe, fc>>

\* the crawler returns: run_scan_logic goes on to queue.join()
CrawlDone ==
    /\ run.pc = "crawling"
    /\ run' = [run EXCEPT !.pc = "joining"]
    /\ UNCHANGED <<queue, produced, wk, net, vulnerable_points, rl, transport, limits, handled, gen, sel, dd, wafdet, analysis, orch, rlgen, pe, fc>>

\* the value main puts on the queue to stop a worker (None in the code)
Sentinel == [type |-> "None"]

\* queue.join() returns once every item put so far is marked done; main then puts one
\* sentinel per worker.  The queue is unbounded, so no put suspends and the loop runs
\* in one step; Queue.put counts a sentinel as an unfinished task too
JoinDone ==
    /\ run.pc = "joining"
    /\ run.unfinished = 0
    /\ queue' = queue \o [i \in 1..Cardinality(Workers) |-> Sentinel]
    /\ run' = [pc |-> "gathering", unfinished |-> run.unfinished + Cardinality(Workers)]
    /\ UNCHANGED <<produced, wk, net, vulnerable_points, rl, transport, limits, handled, gen, sel, dd, wafdet, analysis, orch, rlgen, pe, fc>>

\* scanner_worker gets a sentinel and leaves its loop (without task_done)
TakeSentinel(w) ==
    /\ wk[w].pc = "idle"
    /\ queue # <<>>
    /\ Head(queue) = Sentinel
    /\ queue' = Tail(queue)
    /\ wk' = [wk EXCEPT ![w] = [@ EXCEPT !.pc = "stopped"]]
    /\ UNCHANGED <<produced, net, vulnerable_points, rl, transport, limits, handled, run, gen, sel, dd, wafdet, analysis, orch, rlgen, pe, fc>>

\* asyncio.gather(*scanner_tasks) returns when every worker task has ended
Gather ==
    /\ run.pc = "gathering"
    /\ \A w \in Workers : wk[w].pc = "stopped"
    /\ run' = [run EXCEPT !.pc = "done"]
    /\ UNCHANGED <<queue, produced, wk, net, vulnerable_points, rl, transport, limits, handled, gen, sel, dd, wafdet, analysis, orch, rlgen, pe, fc>>

\* scanner_worker takes an item and calls scan_target, which sends the first baseline
\* request; an item of an unhandled type is skipped
TakeItem(w) ==
    /\ wk[w].pc = "idle"
    /\ queue # <<>>
    /\ Head(queue) # Sentinel
    /\ queue' = Tail(queue)
    /\ LET item == Head(queue)
           r    == [IdleWorker EXCEPT !.item = item]
       IN  IF item.type \in {"url", "form"}
           THEN /\ wk' = [wk EXCEPT ![w] = [r EXCEPT !.pc = "baseline", !.n = 1]]
                /\ net' = net \cup {request(w, r, "baseline", <<>>)}
                /\ run' = run
           ELSE /\ wk' = [wk EXCEPT ![w] = IdleWorker]
                /\ net' = net
                /\ run' = task_done(run)
    /\ UNCHANGED <<produced, vulnerable_points, rl, transport, limits, handled, gen, sel, dd, wafdet, analysis, orch, rlgen, pe, fc>>

\* asyncio.wait_for(scan_target(...), timeout=600.0) expires: the scan is cancelled where
\* it waits, the answer to its request is never handled, scanner_worker prints the skip
\* and calls task_done (main.py 45-56)
Timeout(w) ==
    /\ wk[w].pc \notin {"idle", "stopped", "sent"}
    /\ wk' = [wk EXCEPT ![w] = [IdleWorker EXCEPT !.stored = wk[w].stored, !.log = "timeout"]]
    /\ net' = {req \in net : req.w # w}
    /\ run' = task_done(run)
    /\ UNCHANGED <<queue, produced, vulnerable_points, rl, transport, limits, handled, gen, sel, dd, wafdet, analysis, orch, rlgen, pe, fc>>

\* faulty variant: the parameters are scanned whether or not a baseline was found
after_baseline_goes_on(w, r) ==
    start_param(w, [r EXCEPT !.timings = <<>>], 0)

\* scan_target after _get_baseline: without a baseline (which _get_baseline has
\* printed) it returns, else it goes through the parameters
after_baseline(w, r) ==
    IF ~r.base.ok
    THEN outcome([IdleWorker EXCEPT !.log = "no baseline"], {}, <<>>)
    ELSE start_param(w, [r EXCEPT !.base.time = median(r.timings), !.timings = <<>>], 0)

\* _get_baseline: the answer to baseline request n
RecvBaseline(w) ==
    /\ wk[w].pc = "baseline"
    /\ \E req \in net : \E a \in answers(req) :
        /\ req.w = w
        /\ LET r   == wk[w]
               res == returned(a)
               ok  == res.body # "" /\ ~res.blocked
               r1  == IF ok
                      THEN [r EXCEPT !.timings = Append(@, res.dur),
                                     !.base = IF r.base.ok THEN @
                                              ELSE [ok |-> TRUE, status |-> res.status,
                                                    time |-> 0, body |-> res.body]]
                      ELSE r
           IN  IF r.n < BASELINE_REQUESTS
               THEN Deliver(w, req, a,
                        outcome([r1 EXCEPT !.n = r.n + 1],
                                {request(w, r, "baseline", <<>>)}, <<>>))
               ELSE Deliver(w, req, a, after_baseline(w, r1))

\* _fuzz_parameter_for_anomalies: the answer to one fuzz probe
RecvFuzz(w) ==
    /\ wk[w].pc = "fuzz"
    /\ \E req \in net : \E a \in answers(req) : \E vae \in {0, 6400} : \E page_ok \in BOOLEAN :
        /\ req.w = w
        /\ LET r   == wk[w]
               res == returned(a)
               an  == analyze_response_for_anomalies(
                          r.base.status, Simhash(r.base.body), res.status, res.body,
                          r.base.time, res.dur, vae,
                          payload_graph_score(QUICK_SCAN_PAYLOADS[r.n]))
           IN  IF res.blocked \/ res.body = ""
               THEN Deliver(w, req, a, next_fuzz(w, r))
               ELSE IF an.score < ANOMALY_CONFIRMATION_THRESHOLD
               THEN Deliver(w, req, a, next_fuzz(w, r))
               ELSE IF an.dialect # None
               THEN Deliver(w, req, a,
                        after_success(w, r,
                            vuln_info(r, "Error-Based SQLi", req.value, <<"anomaly_scan">>,
                                      an.dialect, NoUnionInfo)))
               ELSE IF ~page_ok  \* self.context.new_page() raises (line 594)
               THEN Deliver(w, req, a, raised(r))
               ELSE Deliver(w, req, a,
                        outcome([r EXCEPT !.pc = "taint", !.fuzz_value = req.value],
                                {request(w, r, "taint", <<"sqlihunter_taint">>)}, <<>>))

\* _perform_taint_analysis: the answer to the taint probe; then the TRUE request of
\* _confirm_boolean_anomaly
RecvTaint(w) ==
    /\ wk[w].pc = "taint"
    /\ \E req \in net : \E a \in answers(req) :
        /\ req.w = w
        /\ LET r       == wk[w]
               res     == returned(a)
               context == IF res.body = "" \/ ~res.reflect THEN "HTML_TEXT"
                          ELSE "HTML_ATTRIBUTE"
           IN  Deliver(w, req, a,
                   outcome([r EXCEPT !.pc = "confirm_true", !.context = context],
                           {request(w, r, "confirm_true",
                                contextualize_string_payload(<<"AND", "1", "=", "1">>,
                                                             context))},
                           <<>>))

\* _confirm_boolean_anomaly: the answer to the TRUE request; then the FALSE request
RecvConfirmTrue(w) ==
    /\ wk[w].pc = "confirm_true"
    /\ \E req \in net : \E a \in answers(req) :
        /\ req.w = w
        /\ LET r == wk[w]
           IN  Deliver(w, req, a,
                   outcome([r EXCEPT !.pc = "confirm_false", !.true_body = returned(a).body],
                           {request(w, r, "confirm_false",
                                contextualize_string_payload(<<"AND", "1", "=", "2">>,
                                                             r.context))},
                           <<>>))


\* is_different / the confirmation test: the two bodies are more than
\* SIMHASH_THRESHOLD bits apart
differs(body1, body2) == distance(Simhash(body1), Simhash(body2)) > SIMHASH_THRESHOLD

\* _confirm_boolean_anomaly: the answer to the FALSE request (scanner.py 541-544), and
\* what _fuzz_parameter_for_anomalies does with the verdict (598-600)
RecvConfirmFalse(w) ==
    /\ wk[w].pc = "confirm_false"
    /\ \E req \in net : \E a \in answers(req) :
        /\ req.w = w
        /\ LET r          == wk[w]
               false_body == returned(a).body
           IN  IF r.true_body # "" /\ false_body # "" /\ differs(r.true_body, false_body)
               THEN Deliver(w, req, a,
                        after_success(w, r,
                            vuln_info(r, "Boolean-Based SQLi", r.fuzz_value,
                                      <<"anomaly_confirmation">>, None, NoUnionInfo)))
               ELSE Deliver(w, req, a, next_fuzz(w, r))

\* _union_based_scan: the answer to an ORDER BY probe
RecvOrderBy(w) ==
    /\ wk[w].pc = "order_by"
    /\ \E req \in net : \E a \in answers(req) :
        /\ req.w = w
        /\ LET r   == wk[w]
               res == returned(a)
           IN  IF res.blocked \/ res.body = ""
               THEN Deliver(w, req, a, next_order_by(w, r))
               ELSE IF differs(res.body, r.base.body)
               THEN Deliver(w, req, a, after_divergence(w, r))
               ELSE Deliver(w, req, a, next_order_by(w, r))

\* _union_based_scan: the answer to a UNION SELECT probe
RecvUnion(w) ==
    /\ wk[w].pc = "union"
    /\ \E req \in net : \E a \in answers(req) :
        /\ req.w = w
        /\ LET r   == wk[w]
               res == returned(a)
           IN  IF res.blocked \/ res.body = ""
               THEN Deliver(w, req, a, next_union(w, r))
               ELSE IF res.reflect
               THEN Deliver(w, req, a,
                        after_success(w, r,
                            vuln_info(r, "UNION-based SQLi",
                                      union_payload(break_out_chars[r.prefix],
                                                    r.column_count, r.n),
                                      <<"union_scan">>, "generic",
                                      [column_count |-> r.column_count,
                                       prefix |-> break_out_chars[r.prefix],
                                       marker_col |-> r.n])))
               ELSE Deliver(w, req, a, next_union(w, r))

\* _boolean_based_ast_scan: the answer to the TRUE request of pair n
RecvAstTrue(w) ==
    /\ wk[w].pc = "ast_true"
    /\ \E req \in net : \E a \in answers(req) :
        /\ req.w = w
        /\ LET r   == wk[w]
               res == returned(a)
           IN  IF res.blocked \/ res.body = ""
               THEN Deliver(w, req, a, next_ast_pair(w, r))
               ELSE Deliver(w, req, a,
                        outcome([r EXCEPT !.pc = "ast_false", !.true_body = res.body],
                                {request(w, r, "ast_false",
                                     generate_boolean_based(
                                         "HTML_ATTRIBUTE_SINGLE_QUOTED")[r.n].false_sql)},
                                <<>>))

\* _boolean_based_ast_scan: the answer to the FALSE request of pair n
RecvAstFalse(w) ==
    /\ wk[w].pc = "ast_false"
    /\ \E req \in net : \E a \in answers(req) :
        /\ req.w = w
        /\ LET r    == wk[w]
               res  == returned(a)
               pair == generate_boolean_based("HTML_ATTRIBUTE_SINGLE_QUOTED")[r.n]
           IN  IF res.blocked \/ res.body = ""
               THEN Deliver(w, req, a, next_ast_pair(w, r))
               ELSE IF differs(r.true_body, res.body)
               THEN Deliver(w, req, a,
                        after_success(w, r,
                            vuln_info(r, "Boolean-Based SQLi (AST)", pair.true_sql,
                                      <<pair.family>>, None, NoUnionInfo)))
               ELSE Deliver(w, req, a, next_ast_pair(w, r))

Scan(w) ==
    \/ RecvBaseline(w)
    \/ RecvFuzz(w)
    \/ RecvTaint(w)
    \/ RecvConfirmTrue(w)
    \/ RecvConfirmFalse(w)
    \/ RecvOrderBy(w)
    \/ RecvUnion(w)
    \/ RecvAstTrue(w)
    \/ RecvAstFalse(w)

----------------------------------------------------------------------------
(* Spec: the run of main.py against an unconstrained target, the fuzz pass *)
(* and the ORDER BY probing cut to the bounds.  The target of Spec answers *)
(* no 429/503: the rate limiter, which no technique reads, is the subject  *)
(* of SpecRL.                                                              *)

\* SpecRL's record of the responses: how many were handled, the last one, and how
\* many responses in a row, up to ten, were neither WAF-blocked nor rate-limited
NothingHandled == [n |-> 0, a |-> failure, clean |-> 0]

\* the responses in a row that were neither blocked nor rate-limited, after answer a;
\* a request that raised brought no response
clean_in_a_row(clean, a) ==
    IF a.exc THEN clean
    ELSE IF is_rate_limited(a.status) \/ is_blocked(a.status, a.body) THEN 0
    ELSE Min(clean + 1, CLEAN_STREAK)

InitialRateLimit == [active |-> FALSE, delay |-> MIN_BACKOFF_DELAY, succ |-> 0]

Init ==
    /\ queue = <<>>
    /\ produced = {}
    /\ wk = [w \in Workers |-> IdleWorker]
    /\ net = {}
    /\ vulnerable_points = <<>>
    /\ rl = InitialRateLimit
    /\ transport = [kind |-> "any", K |-> 0, waf |-> None]
    /\ limits = [payloads |-> MaxFuzzPayloads, order_by |-> MaxOrderBy]
    /\ handled = NothingHandled
    /\ run = [pc |-> "crawling", unfinished |-> 0]
    /\ fc = NoManager
    /\ pe = NoExpansion
    /\ rlgen = NoGenerator
    /\ orch = NoOrchestrator
    /\ analysis = NoAnalysis
    /\ wafdet = NoDetection
    /\ dd = NoDedup
    /\ sel = NoSelector
    /\ gen = NoCall

Next ==
    \/ Enqueue
    \/ \E w \in Workers : TakeItem(w)
    \/ \E w \in Workers : Scan(w)
    \/ \E w \in Workers : Timeout(w)

Spec == Init /\ [][Next]_vars

----------------------------------------------------------------------------
(* SpecRun: one whole run of run_scan_logic, from the crawl to the end of  *)
(* the wait on the workers, against the mock transports.                   *)

RunTransports ==
         {[kind |-> k, K |-> 0, waf |-> None] : k \in {"time", "bool_diff", "bool_same", "sqlerr", "blind"}}
    \cup {[kind |-> "union", K |-> 1, waf |-> None]}

InitRun ==
    /\ queue = <<>>
    /\ produced = {}
    /\ wk = [w \in Workers |-> IdleWorker]
    /\ net = {}
    /\ vulnerable_points = <<>>
    /\ rl = InitialRateLimit
    /\ transport \in RunTransports
    /\ limits = [payloads |-> MaxFuzzPayloads, order_by |-> MaxOrderBy]
    /\ handled = NothingHandled
    /\ run = [pc |-> "crawling", unfinished |-> 0]
    /\ fc = NoManager
    /\ pe = NoExpansion
    /\ rlgen = NoGenerator
    /\ orch = NoOrchestrator
    /\ analysis = NoAnalysis
    /\ wafdet = NoDetection
    /\ dd = NoDedup
    /\ sel = NoSelector
    /\ gen = NoCall

NextRun ==
    \/ Enqueue
    \/ CrawlDone
    \/ \E w \in Workers : TakeItem(w)
    \/ \E w \in Workers : Scan(w)
    \/ \E w \in Workers : Timeout(w)
    \/ JoinDone
    \/ \E w \in Workers : TakeSentinel(w)
    \/ Gather

\* a step of the run other than the crawler finding a page and the 600 s timeout
\* expiring
RunStep ==
    \/ CrawlDone
    \/ \E w \in Workers : TakeItem(w)
    \/ \E w \in Workers : Scan(w)
    \/ JoinDone
    \/ \E w \in Workers : TakeSentinel(w)
    \/ Gather

\* what the scheduling guarantees: the crawl is bounded by max_depth and returns; the
\* event loop runs a task that is ready (a worker whose queue.get() can return, main
\* once join or gather can return); a request is answered or fails, the browser and
\* the HTTP client having their own timeouts.  So the run does not stop while one of
\* these steps is possible.  Nothing is assumed of the 600 s timeout, which may or
\* may not expire
FairRun == WF_vars(RunStep)

SpecRun == InitRun /\ [][NextRun]_vars /\ FairRun

----------------------------------------------------------------------------
(* SpecTamper: a TamperSelector under any sequence of update_stats and     *)
(* select_chain calls.  Beside the selector, sel records the chains that   *)
(* __init__ primed, the rewards given to each chain (how many, and their   *)
(* sum), the last update and the last selection.                           *)

\* the update_stats calls of one run
MaxUpdates == 3

\* the chains that are updated: two of the default chains (the second primed for AWS
\* WAF) and a chain the selector never knew
ChainsUpdated == {<<>>, <<"space2comment">>, <<"between">>}
Rewards == {-1, 0, 1}
Epsilons == {0, 20}

InitTamper ==
    /\ queue = <<>>
    /\ produced = {}
    /\ wk = [w \in Workers |-> IdleWorker]
    /\ net = {}
    /\ vulnerable_points = <<>>
    /\ rl = InitialRateLimit
    /\ transport = [kind |-> "any", K |-> 0, waf |-> None]
    /\ limits = [payloads |-> 0, order_by |-> 0]
    /\ handled = NothingHandled
    /\ run = [pc |-> "crawling", unfinished |-> 0]
    /\ fc = NoManager
    /\ pe = NoExpansion
    /\ rlgen = NoGenerator
    /\ orch = NoOrchestrator
    /\ analysis = NoAnalysis
    /\ wafdet = NoDetection
    /\ dd = NoDedup
    /\ gen = NoCall
    /\ sel \in {[NoSelector EXCEPT
                    !.s = TamperSelector(waf_name, epsilon),
                    !.seeded = {WAF_TTP(waf_name)[k] : k \in 1..Len(WAF_TTP(waf_name))},
                    !.given = [chain \in ChainsUpdated |-> [n |-> 0, sum |-> 0]]] :
                 waf_name \in WafNames, epsilon \in Epsilons}

\* update_stats(chain, reward) is called
UpdateStats ==
    /\ sel.updates < MaxUpdates
    /\ \E chain \in ChainsUpdated : \E reward \in Rewards :
        sel' = [sel EXCEPT !.s = update_stats(sel.s, chain, reward),
                           !.given[chain] = [n |-> @.n + 1, sum |-> @.sum + reward],
                           !.updates = @ + 1,
                           !.last = [chain |-> chain, reward |-> reward],
                           !.selected = NoSelector.selected]
    /\ UNCHANGED <<queue, produced, wk, net, vulnerable_points, rl, transport, limits, handled, run, gen, dd, wafdet, analysis, orch, rlgen, pe, fc>>

\* select_chain() is called; random.random() lies in [0, 1), so it is below epsilon
\* only for a positive epsilon
SelectChain ==
    /\ \E explore \in {e \in BOOLEAN : e => sel.s.epsilon > 0} :
       \E chain \in select_chain(sel.s, explore) :
        sel' = [sel EXCEPT !.selected = [has |-> TRUE, explore |-> explore, chain |-> chain]]
    /\ UNCHANGED <<queue, produced, wk, net, vulnerable_points, rl, transport, limits, handled, run, gen, dd, wafdet, analysis, orch, rlgen, pe, fc>>

NextTamper == UpdateStats \/ SelectChain

SpecTamper == InitTamper /\ [][NextTamper]_vars

----------------------------------------------------------------------------
(* SpecDedup: deduplicate_vulnerabilities on any list of up to MaxVulns    *)
(* records; kept records the positions of the records the loop kept.       *)

MaxVulns == 3

VulnTypes == { <<"Boolean-Based SQLi">>,
               <<"Boolean-Based SQLi", " ", "(", "Tampered", ")">>,
               <<"Time-Based SQLi", " ", "(", "MYSQL_SLEEP", ")">> }

\* the records of a list of n: the payload of a record tells it from the others
VulnLists(n) ==
    [1..n -> {[url |-> u, parameter |-> q, type |-> t] :
                 u \in {"/item?id=1", "/search"}, q \in {"id", "q"}, t \in VulnTypes}]

with_payloads(list) ==
    [k \in 1..Len(list) |->
        [url |-> list[k].url, parameter |-> list[k].parameter, type |-> list[k].type,
         payload |-> k]]

InitDedup ==
    /\ queue = <<>>
    /\ produced = {}
    /\ wk = [w \in Workers |-> IdleWorker]
    /\ net = {}
    /\ vulnerable_points = <<>>
    /\ rl = InitialRateLimit
    /\ transport = [kind |-> "any", K |-> 0, waf |-> None]
    /\ limits = [payloads |-> 0, order_by |-> 0]
    /\ handled = NothingHandled
    /\ run = [pc |-> "crawling", unfinished |-> 0]
    /\ fc = NoManager
    /\ pe = NoExpansion
    /\ rlgen = NoGenerator
    /\ orch = NoOrchestrator
    /\ analysis = NoAnalysis
    /\ wafdet = NoDetection
    /\ gen = NoCall
    /\ sel = NoSelector
    /\ \E n \in 0..MaxVulns : \E list \in VulnLists(n) :
        dd = [NoDedup EXCEPT !.vulnerabilities = with_payloads(list), !.i = 1]

\* one round of the loop (lines 32-37)
DedupRound ==
    /\ ~dd.returned
    /\ dd.i <= Len(dd.vulnerabilities)
    /\ LET vuln == dd.vulnerabilities[dd.i]
       IN  dd' = IF signature(vuln) \notin dd.seen_signatures
                 THEN [dd EXCEPT !.unique_vulns = Append(@, vuln),
                                 !.seen_signatures = @ \cup {signature(vuln)},
                                 !.kept = Append(@, dd.i),
                                 !.i = @ + 1]
                 ELSE [dd EXCEPT !.i = @ + 1]
    /\ UNCHANGED <<queue, produced, wk, net, vulnerable_points, rl, transport, limits, handled, run, gen, sel, wafdet, analysis, orch, rlgen, pe, fc>>

\* return unique_vulns
DedupReturn ==
    /\ ~dd.returned
    /\ dd.i > Len(dd.vulnerabilities)
    /\ dd' = [dd EXCEPT !.returned = TRUE]
    /\ UNCHANGED <<queue, produced, wk, net, vulnerable_points, rl, transport, limits, handled, run, gen, sel, wafdet, analysis, orch, rlgen, pe, fc>>

NextDedup == DedupRound \/ DedupReturn

SpecDedup == InitDedup /\ [][NextDedup]_vars

----------------------------------------------------------------------------
(* SpecWaf: _predict_waf on any features, against signature entries with   *)
(* any configured min_matches.                                             *)

FeatureSets ==
    [headers : SUBSET {"server: edgewaf"}, cookies : SUBSET {"__edge"},
     body : {{}, {"ok"}, {"ok", "attention required"}}, ja3 : {None, "abcd1234"},
     delay_ratio : {1, 4}, h2_features : SUBSET {"max_concurrent_streams=128"}]

InitWaf ==
    /\ queue = <<>>
    /\ produced = {}
    /\ wk = [w \in Workers |-> IdleWorker]
    /\ net = {}
    /\ vulnerable_points = <<>>
    /\ rl = InitialRateLimit
    /\ transport = [kind |-> "any", K |-> 0, waf |-> None]
    /\ limits = [payloads |-> 0, order_by |-> 0]
    /\ handled = NothingHandled
    /\ run = [pc |-> "crawling", unfinished |-> 0]
    /\ fc = NoManager
    /\ pe = NoExpansion
    /\ rlgen = NoGenerator
    /\ orch = NoOrchestrator
    /\ analysis = NoAnalysis
    /\ gen = NoCall
    /\ sel = NoSelector
    /\ dd = NoDedup
    /\ \E features \in FeatureSets : \E m \in [{"TestJA3", "EdgeWAF"} -> 1..3] :
        wafdet = [NoDetection EXCEPT !.pc = "called", !.min_matches = m, !.features = features]

\* _predict_waf(features) returns
PredictWaf ==
    /\ wafdet.pc = "called"
    /\ \E gnn_agrees \in BOOLEAN :
        wafdet' = [wafdet EXCEPT
                      !.pc = "returned",
                      \* prediction = BOOST_MODEL.predict(features, WAF_SIGNATURES)
                      !.prediction = IF wafdet.features.body = {} THEN None
                                     ELSE predict(wafdet.features,
                                                  waf_signatures(wafdet.min_matches)),
                      !.waf_name = predict_waf(wafdet.features,
                                               waf_signatures(wafdet.min_matches), gnn_agrees)]
    /\ UNCHANGED <<queue, produced, wk, net, vulnerable_points, rl, transport, limits, handled, run, gen, sel, dd, analysis, orch, rlgen, pe, fc>>

NextWaf == PredictWaf

SpecWaf == InitWaf /\ [][NextWaf]_vars

----------------------------------------------------------------------------
(* SpecAnalyze: the response analysis alone, called on the response to one *)
(* probe: a page of the target or the error page of a database system.     *)

InitAnalyze ==
    /\ queue = <<>>
    /\ produced = {}
    /\ wk = [w \in Workers |-> IdleWorker]
    /\ net = {}
    /\ vulnerable_points = <<>>
    /\ rl = InitialRateLimit
    /\ transport = [kind |-> "any", K |-> 0, waf |-> None]
    /\ limits = [payloads |-> Len(QUICK_SCAN_PAYLOADS), order_by |-> ORDER_BY_LAST]
    /\ handled = NothingHandled
    /\ run = [pc |-> "joining", unfinished |-> 0]
    /\ fc = NoManager
    /\ pe = NoExpansion
    /\ rlgen = NoGenerator
    /\ orch = NoOrchestrator
    /\ gen = NoCall
    /\ sel = NoSelector
    /\ dd = NoDedup
    /\ wafdet = NoDetection
    /\ analysis \in {[NoAnalysis EXCEPT !.pc = "called", !.baseline_status = bs,
                         !.baseline_body = bb, !.response_status = rs,
                         !.response_body = rb, !.vae = v] :
                        bs \in {200, 500}, bb \in {"home", "other"}, rs \in {200, 500},
                        rb \in (Bodies \ {"blockpage"}) \cup ErrorBodies, v \in {0, 6400}}

\* the call returns (anomaly score, inferred dialect)
Analyze ==
    /\ analysis.pc = "called"
    /\ LET an == analyze_response_for_anomalies(
                     analysis.baseline_status, Simhash(analysis.baseline_body),
                     analysis.response_status, analysis.response_body, 50, 50,
                     analysis.vae, 0)
       IN  analysis' = [analysis EXCEPT !.pc = "returned", !.score = an.score,
                                        !.inferred_dialect = an.dialect]
    /\ UNCHANGED <<queue, produced, wk, net, vulnerable_points, rl, transport, limits, handled, run, gen, sel, dd, wafdet, orch, rlgen, pe, fc>>

NextAnalyze == Analyze

SpecAnalyze == InitAnalyze /\ [][NextAnalyze]_vars

----------------------------------------------------------------------------
(* SpecOrch: one run of the orchestrator.  The agents and the listener are *)
(* tasks of one event loop.  The loop wakes the listener for a waiting     *)
(* metric before the timer of run's sleep is due, so the listener makes a  *)
(* round during the sleep if it has a metric to receive; how many rounds   *)
(* fit in the 0.1 s is not fixed by the code (each rewrites the file).     *)

InitOrch ==
    /\ queue = <<>>
    /\ produced = {}
    /\ wk = [w \in Workers |-> IdleWorker]
    /\ net = {}
    /\ vulnerable_points = <<>>
    /\ rl = InitialRateLimit
    /\ transport = [kind |-> "any", K |-> 0, waf |-> None]
    /\ limits = [payloads |-> Len(QUICK_SCAN_PAYLOADS), order_by |-> ORDER_BY_LAST]
    /\ handled = NothingHandled
    /\ run = [pc |-> "joining", unfinished |-> 0]
    /\ fc = NoManager
    /\ pe = NoExpansion
    /\ rlgen = NoGenerator
    /\ gen = NoCall
    /\ sel = NoSelector
    /\ dd = NoDedup
    /\ wafdet = NoDetection
    /\ analysis = NoAnalysis
    /\ orch \in {[NoOrchestrator EXCEPT !.pc = "gather", !.todo = t] :
                    t \in [Agents -> 0..MaxMetrics]}

\* agent a awaits o.send_metric(...) for its next metric
SendMetric(a) ==
    /\ orch.pc = "gather"
    /\ orch.todo[a] > 0
    /\ orch' = [send_metric(orch, [agent |-> a, v |-> orch.todo[a]])
                    EXCEPT !.todo[a] = @ - 1]
    /\ UNCHANGED <<queue, produced, wk, net, vulnerable_points, rl, transport, limits, handled, run, gen, sel, dd, wafdet, analysis, rlgen, pe, fc>>

\* the listener receives a metric (at any time before it is cancelled)
ListenerRound ==
    /\ orch.pc \in {"gather", "sleep"}
    /\ orch.pipe # <<>>
    /\ orch' = listener_round(orch)
    /\ UNCHANGED <<queue, produced, wk, net, vulnerable_points, rl, transport, limits, handled, run, gen, sel, dd, wafdet, analysis, rlgen, pe, fc>>

\* asyncio.gather returns when every agent has finished: run sleeps 0.1 s
GatherAgents ==
    /\ orch.pc = "gather"
    /\ \A a \in Agents : orch.todo[a] = 0
    /\ orch' = [orch EXCEPT !.pc = "sleep"]
    /\ UNCHANGED <<queue, produced, wk, net, vulnerable_points, rl, transport, limits, handled, run, gen, sel, dd, wafdet, analysis, rlgen, pe, fc>>

\* the sleep is over: run cancels the listener, which leaves its loop at the
\* CancelledError, and returns self.metrics
CancelListener ==
    /\ orch.pc = "sleep"
    /\ orch.pipe = <<>> \/ orch.slept
    /\ orch' = [orch EXCEPT !.pc = "returned", !.returned = orch.metrics]
    /\ UNCHANGED <<queue, produced, wk, net, vulnerable_points, rl, transport, limits, handled, run, gen, sel, dd, wafdet, analysis, rlgen, pe, fc>>

NextOrch ==
    \/ \E a \in Agents : SendMetric(a)
    \/ ListenerRound
    \/ GatherAgents
    \/ CancelListener

SpecOrch == InitOrch /\ [][NextOrch]_vars

----------------------------------------------------------------------------
(* SpecLearn: an RLPayloadGenerator under update and choose calls.         *)

\* the techniques of the callers: two of them share a name
Techniques ==
    {[name |-> "A", payload |-> 1], [name |-> "B", payload |-> 2], [name |-> "B", payload |-> 3]}

\* the lists given to choose: techniques in any order, none twice
TechniqueLists == UNION {shuffles(l) : l \in
    { <<[name |-> "A", payload |-> 1], [name |-> "B", payload |-> 2]>>,
      <<[name |-> "A", payload |-> 1], [name |-> "B", payload |-> 2],
        [name |-> "B", payload |-> 3]>> }}

InitLearn ==
    /\ queue = <<>>
    /\ produced = {}
    /\ wk = [w \in Workers |-> IdleWorker]
    /\ net = {}
    /\ vulnerable_points = <<>>
    /\ rl = InitialRateLimit
    /\ transport = [kind |-> "any", K |-> 0, waf |-> None]
    /\ limits = [payloads |-> Len(QUICK_SCAN_PAYLOADS), order_by |-> ORDER_BY_LAST]
    /\ handled = NothingHandled
    /\ run = [pc |-> "joining", unfinished |-> 0]
    /\ fc = NoManager
    /\ pe = NoExpansion
    /\ gen = NoCall
    /\ sel = NoSelector
    /\ dd = NoDedup
    /\ wafdet = NoDetection
    /\ analysis = NoAnalysis
    /\ orch = NoOrchestrator
    /\ rlgen \in {[NoGenerator EXCEPT !.pc = "new", !.epsilon = e] : e \in {0, 20}}

\* gen.update(technique, reward)
Update ==
    /\ rlgen.pc # "none"
    /\ rlgen.updates < MaxLearned
    /\ \E technique \in TechniqueNames : \E reward \in {-1, 0, 1} :
        rlgen' = [rlgen EXCEPT !.pc = "updated", !.updates = @ + 1,
                               !.q_table = update(rlgen.q_table, technique, reward),
                               !.techniques = <<>>, !.ordered = <<>>]
    /\ UNCHANGED <<queue, produced, wk, net, vulnerable_points, rl, transport, limits, handled, run, gen, sel, dd, wafdet, analysis, orch, pe, fc>>

\* gen.choose(techniques)
Choose ==
    /\ rlgen.pc \in {"new", "updated"}
    /\ \E techniques \in TechniqueLists : \E explore \in {FALSE} \cup {rlgen.epsilon > 0} :
        \E ordered \in choose(rlgen.q_table, techniques, explore) :
            rlgen' = [rlgen EXCEPT !.pc = "chosen",
                                   !.q_table = with_defaults(rlgen.q_table, techniques),
                                   !.techniques = techniques, !.ordered = ordered]
    /\ UNCHANGED <<queue, produced, wk, net, vulnerable_points, rl, transport, limits, handled, run, gen, sel, dd, wafdet, analysis, orch, pe, fc>>

NextLearn ==
    \/ Update
    \/ Choose

SpecLearn == InitLearn /\ [][NextLearn]_vars

----------------------------------------------------------------------------
(* SpecGrammar: _apply_grammar as generate calls it for one variation,     *)
(* one round of its while loop a step.  FairGrammar: the call is not       *)
(* suspended (it has no await), so a step that can be taken is taken.      *)

\* the grammars: that of test_polymorphic_engine.py, one whose later item expands to a
\* token of an earlier item, one with that order reversed, one whose expansion holds
\* its own token, and none
Grammars ==
    { << [token |-> "<field>", expansions |-> << <<"username">>, <<"password">> >>],
         [token |-> "<id>",    expansions |-> << <<"1">>, <<"2">> >>] >>,
      << [token |-> "<id>",    expansions |-> << <<"1">> >>],
         [token |-> "<field>", expansions |-> << <<"col", "<id>">>, <<"name">> >>] >>,
      << [token |-> "<field>", expansions |-> << <<"col", "<id>">> >>],
         [token |-> "<id>",    expansions |-> << <<"1">>, <<"2">> >>] >>,
      << [token |-> "<id>",    expansions |-> << <<"<id>">> >>] >>,
      <<>> }

\* the taint maps: none, that of the test, one whose value holds its own token, one
\* whose value holds another token
TaintMaps ==
    { <<>>,
      << [token |-> "<field>", value |-> <<"email">>] >>,
      << [token |-> "<id>",    value |-> <<"<id>">>] >>,
      << [token |-> "<field>", value |-> <<"<id>">>] >> }

BasePayloads ==
    { <<"SELECT", "<field>", "FROM", "users", "WHERE", "id=", "<id>">>,
      <<"<id>", "OR", "<id>">>,
      <<"UNION", "SELECT", "1">> }

InitGrammar ==
    /\ queue = <<>>
    /\ produced = {}
    /\ wk = [w \in Workers |-> IdleWorker]
    /\ net = {}
    /\ vulnerable_points = <<>>
    /\ rl = InitialRateLimit
    /\ transport = [kind |-> "any", K |-> 0, waf |-> None]
    /\ limits = [payloads |-> Len(QUICK_SCAN_PAYLOADS), order_by |-> ORDER_BY_LAST]
    /\ handled = NothingHandled
    /\ run = [pc |-> "joining", unfinished |-> 0]
    /\ fc = NoManager
    /\ gen = NoCall
    /\ sel = NoSelector
    /\ dd = NoDedup
    /\ wafdet = NoDetection
    /\ analysis = NoAnalysis
    /\ orch = NoOrchestrator
    /\ rlgen = NoGenerator
    /\ pe \in {[NoExpansion EXCEPT !.pc = "called", !.payload = b, !.grammar = g,
                                   !.taint_map = t] :
                    b \in BasePayloads, g \in Grammars, t \in TaintMaps}

\* _apply_grammar is entered: an empty grammar returns the payload as it is
EnterGrammar ==
    /\ pe.pc = "called"
    /\ pe' = IF pe.grammar = <<>> THEN [pe EXCEPT !.pc = "expanded"]
             ELSE [pe EXCEPT !.pc = "expanding", !.k = 1]
    /\ UNCHANGED <<queue, produced, wk, net, vulnerable_points, rl, transport, limits, handled, run, gen, sel, dd, wafdet, analysis, orch, rlgen, fc>>

\* one test of `while token in payload` for item k, and the round it lets in
GrammarRound ==
    /\ pe.pc = "expanding"
    /\ LET item == pe.grammar[pe.k]
       IN  IF first_occurrence(pe.payload, item.token) = 0
           THEN pe' = next_item(pe, pe.k)
           ELSE \E replacement \in replacements(item.token, item.expansions, pe.taint_map) :
                    pe' = [pe EXCEPT
                             !.payload = replace_first(pe.payload, item.token, replacement),
                             !.drawn = IF \E k \in 1..Len(item.expansions) :
                                             item.expansions[k] = replacement
                                       THEN @ \cup {item.token} ELSE @]
    /\ UNCHANGED <<queue, produced, wk, net, vulnerable_points, rl, transport, limits, handled, run, gen, sel, dd, wafdet, analysis, orch, rlgen, fc>>

\* generate hands the expanded payload to the tamper functions it selected
HandToTampers ==
    /\ pe.pc = "expanded"
    /\ pe' = [pe EXCEPT !.pc = "handed"]
    /\ UNCHANGED <<queue, produced, wk, net, vulnerable_points, rl, transport, limits, handled, run, gen, sel, dd, wafdet, analysis, orch, rlgen, fc>>

NextGrammar ==
    \/ EnterGrammar
    \/ GrammarRound
    \/ HandToTampers

SpecGrammar == InitGrammar /\ [][NextGrammar]_vars

FairGrammar == WF_vars(NextGrammar)

SpecGrammarRuns == InitGrammar /\ [][NextGrammar]_vars /\ FairGrammar

----------------------------------------------------------------------------
(* SpecVM: the agent tasks of one run.  asyncio.gather starts the tasks in *)
(* the order of the list; a task runs until its agent suspends or ends.    *)
(* deprovision_vm may also be called again for a VM that was deprovisioned.*)

InitVM ==
    /\ queue = <<>>
    /\ produced = {}
    /\ wk = [w \in Workers |-> IdleWorker]
    /\ net = {}
    /\ vulnerable_points = <<>>
    /\ rl = InitialRateLimit
    /\ transport = [kind |-> "any", K |-> 0, waf |-> None]
    /\ limits = [payloads |-> Len(QUICK_SCAN_PAYLOADS), order_by |-> ORDER_BY_LAST]
    /\ handled = NothingHandled
    /\ run = [pc |-> "joining", unfinished |-> 0]
    /\ gen = NoCall
    /\ sel = NoSelector
    /\ dd = NoDedup
    /\ wafdet = NoDetection
    /\ analysis = NoAnalysis
    /\ orch = NoOrchestrator
    /\ rlgen = NoGenerator
    /\ pe = NoExpansion
    /\ fc \in {[NoManager EXCEPT
                    !.pc = "gather", !.m = [pool |-> initial_pool, vms |-> {}], !.agents = n,
                    !.task = [a \in 1..MaxAgents |->
                                 [pc |-> IF a <= n THEN "new" ELSE "none",
                                  vm_id |-> 0, executed |-> 0]]] :
                  n \in 1..MaxAgents}

\* the first step of run_agent_in_vm for agent a: provision_vm; without a VM the task
\* returns; with one the agent is called and runs until it suspends (the task goes on
\* later) or until it ends (ok tells whether it returned or raised), and then the
\* finally deprovisions the VM in the same step
StartTask(a) ==
    /\ fc.pc = "gather"
    /\ fc.task[a].pc = "new"
    /\ \A b \in 1..(a - 1) : fc.task[b].pc # "new"
    /\ IF fc.m.pool = <<>>
       THEN fc' = [fc EXCEPT !.task[a].pc = "skipped"]
       ELSE LET vm_id == fc.issued + 1
                m     == provision_vm(fc.m, vm_id)
            IN  \E suspends \in BOOLEAN : \E ok \in BOOLEAN :
                  fc' = IF suspends
                        THEN [fc EXCEPT !.m = m, !.issued = vm_id,
                                        !.task[a] = [pc |-> "running", vm_id |-> vm_id,
                                                     executed |-> 1]]
                        ELSE [fc EXCEPT !.m = deprovision_vm(m, vm_id), !.issued = vm_id,
                                        !.task[a] = [pc |-> IF ok THEN "done" ELSE "raised",
                                                     vm_id |-> vm_id, executed |-> 1]]
    /\ UNCHANGED <<queue, produced, wk, net, vulnerable_points, rl, transport, limits, handled, run, gen, sel, dd, wafdet, analysis, orch, rlgen, pe>>

\* the agent of task a, resumed, returns or raises: the finally deprovisions its VM
EndAgent(a) ==
    /\ fc.task[a].pc = "running"
    /\ \E ok \in BOOLEAN :
        fc' = [fc EXCEPT !.m = deprovision_vm(fc.m, fc.task[a].vm_id),
                         !.task[a].pc = IF ok THEN "done" ELSE "raised"]
    /\ UNCHANGED <<queue, produced, wk, net, vulnerable_points, rl, transport, limits, handled, run, gen, sel, dd, wafdet, analysis, orch, rlgen, pe>>

\* deprovision_vm is called once more for the VM of a task that has ended
DeprovisionAgain(a) ==
    /\ fc.task[a].pc \in {"done", "raised"}
    /\ fc.again < fc.issued
    /\ fc' = [fc EXCEPT !.m = deprovision_vm(fc.m, fc.task[a].vm_id), !.again = @ + 1]
    /\ UNCHANGED <<queue, produced, wk, net, vulnerable_points, rl, transport, limits, handled, run, gen, sel, dd, wafdet, analysis, orch, rlgen, pe>>

\* asyncio.gather is over: every task has ended, or an agent has raised and gather
\* raises the same while the tasks still running go on
GatherOver ==
    /\ fc.pc = "gather"
    /\ \A a \in 1..fc.agents : fc.task[a].pc # "new"
    /\ \/ \A a \in 1..fc.agents : fc.task[a].pc \in {"done", "raised", "skipped"}
       \/ \E a \in 1..fc.agents : fc.task[a].pc = "raised"
    /\ fc' = [fc EXCEPT !.pc = "gathered"]
    /\ UNCHANGED <<queue, produced, wk, net, vulnerable_points, rl, transport, limits, handled, run, gen, sel, dd, wafdet, analysis, orch, rlgen, pe>>

NextVM ==
    \/ \E a \in 1..MaxAgents : StartTask(a)
    \/ \E a \in 1..MaxAgents : EndAgent(a)
    \/ \E a \in 1..MaxAgents : DeprovisionAgain(a)
    \/ GatherOver

SpecVM == InitVM /\ [][NextVM]_vars

----------------------------------------------------------------------------
(* SpecGen: the payload generator alone.  A generator of some dialect is   *)
(* asked for the payloads of a technique in a context, and the context     *)
(* wrapping is applied to a raw payload, and again to what it gave.        *)

PayloadTypes == {"TIME_BASED", "BOOLEAN_BASED", "OOB", "ERROR_BASED", ""}
Contexts == {"HTML_TEXT", "HTML_ATTRIBUTE_SINGLE_QUOTED", "HTML_ATTRIBUTE_DOUBLE_QUOTED"}
OptionsSet ==
    {NoOptions, [collaborator_url |-> <<>>], [collaborator_url |-> <<"c.example">>],
     [collaborator_url |-> <<"http", "://", "c.example">>]}
RawPayloads == {<<"AND", "1", "=", "1">>, <<";", "SELECT", "1">>}

InitGen ==
    /\ queue = <<>>
    /\ produced = {}
    /\ wk = [w \in Workers |-> IdleWorker]
    /\ net = {}
    /\ vulnerable_points = <<>>
    /\ rl = InitialRateLimit
    /\ transport = [kind |-> "any", K |-> 0, waf |-> None]
    /\ limits = [payloads |-> 0, order_by |-> 0]
    /\ handled = NothingHandled
    /\ run = [pc |-> "crawling", unfinished |-> 0]
    /\ fc = NoManager
    /\ pe = NoExpansion
    /\ rlgen = NoGenerator
    /\ orch = NoOrchestrator
    /\ analysis = NoAnalysis
    /\ wafdet = NoDetection
    /\ dd = NoDedup
    /\ sel = NoSelector
    /\ gen \in {[NoCall EXCEPT !.pc = "new", !.dialect = d, !.payload_type = t, !.context = c,
                                !.options = o, !.raw = p] :
                    d \in Dialects, t \in PayloadTypes, c \in Contexts, o \in OptionsSet,
                    p \in RawPayloads}

\* generate(payload_type, context, options) is called
Generate ==
    /\ gen.pc = "new"
    /\ gen' = [gen EXCEPT !.pc = "generated",
                          !.out = generate(gen.dialect, gen.payload_type, gen.context, gen.options)]
    /\ UNCHANGED <<queue, produced, wk, net, vulnerable_points, rl, transport, limits, handled, run, sel, dd, wafdet, analysis, orch, rlgen, pe, fc>>

\* _contextualize_string_payload is applied to the raw payload, then to its own result
Wrap ==
    /\ gen.wraps < 2
    /\ gen' = IF gen.wraps = 0
              THEN [gen EXCEPT !.wraps = 1,
                               !.once = contextualize_string_payload(gen.raw, gen.context)]
              ELSE [gen EXCEPT !.wraps = 2,
                               !.twice = contextualize_string_payload(gen.once, gen.context)]
    /\ UNCHANGED <<queue, produced, wk, net, vulnerable_points, rl, transport, limits, handled, run, sel, dd, wafdet, analysis, orch, rlgen, pe, fc>>

NextGen == Generate \/ Wrap

SpecGen == InitGen /\ [][NextGen]_vars

----------------------------------------------------------------------------
(* SpecScan: one scan_target call, with all the fuzz payloads and all the  *)
(* ORDER BY indexes, against the unconstrained target and against the mock *)
(* transports of the end-to-end scenarios.                                 *)

Transports ==
         {[kind |-> k, K |-> 0, waf |-> None] : k \in {"any", "time", "bool_diff", "bool_same", "sqlerr", "blind"}}
    \cup {[kind |-> "union", K |-> k, waf |-> None] : k \in 1..(ORDER_BY_LAST - 1)}

InitScan ==
    /\ queue \in {<<it>> : it \in Items}
    /\ produced = Items
    /\ wk = [w \in Workers |-> IdleWorker]
    /\ net = {}
    /\ vulnerable_points = <<>>
    /\ rl = InitialRateLimit
    /\ transport \in Transports
    \* the mock transports serve the injection point /item?id=1
    /\ Head(queue).type = "api" => transport.kind = "any"
    /\ limits = [payloads |-> Len(QUICK_SCAN_PAYLOADS), order_by |-> ORDER_BY_LAST]
    /\ handled = NothingHandled
    /\ run = [pc |-> "joining", unfinished |-> 1]
    /\ fc = NoManager
    /\ pe = NoExpansion
    /\ rlgen = NoGenerator
    /\ orch = NoOrchestrator
    /\ analysis = NoAnalysis
    /\ wafdet = NoDetection
    /\ dd = NoDedup
    /\ sel = NoSelector
    /\ gen = NoCall

NextScan ==
    \/ \E w \in Workers : TakeItem(w)
    \/ \E w \in Workers : Scan(w)
    \/ \E w \in Workers : Timeout(w)

SpecScan == InitScan /\ [][NextScan]_vars

----------------------------------------------------------------------------
(* SpecRL: the rate limiter under the requests of the workers, whatever    *)
(* the target answers and in whatever order the answers arrive.            *)

\* Spec-RL only: the responses one run handles
MaxResponses == 12

rl_answers ==
    {answer("home", st, 50, FALSE) : st \in {200, 429, 503, 500}}
    \cup {answer("blockpage", 403, 50, FALSE), failure}

\* a worker calls _send_headless_request: the request leaves (asyncio.to_thread)
RLSend(w) ==
    /\ wk[w].pc = "idle"
    /\ handled.n + Cardinality(net) < MaxResponses
    /\ wk' = [wk EXCEPT ![w] = [IdleWorker EXCEPT !.pc = "sent", !.item = UrlItem, !.pidx = 1]]
    /\ net' = net \cup {request(w, wk'[w], "fuzz", <<"1">>)}
    /\ UNCHANGED <<queue, produced, vulnerable_points, rl, transport, limits, handled, run, gen, sel, dd, wafdet, analysis, orch, rlgen, pe, fc>>

\* the answer arrives and _send_headless_request returns
RLRecv(w) ==
    /\ wk[w].pc = "sent"
    /\ \E req \in net : \E a \in rl_answers :
        /\ req.w = w
        /\ rl' = after_response(rl, a)
        /\ handled' = [n |-> handled.n + 1, a |-> a,
                        clean |-> clean_in_a_row(handled.clean, a)]
        /\ net' = net \ {req}
        /\ wk' = [wk EXCEPT ![w] = IdleWorker]
    /\ UNCHANGED <<queue, produced, vulnerable_points, transport, limits, run, gen, sel, dd, wafdet, analysis, orch, rlgen, pe, fc>>

InitRL ==
    /\ queue = <<>>
    /\ produced = {}
    /\ wk = [w \in Workers |-> IdleWorker]
    /\ net = {}
    /\ vulnerable_points = <<>>
    /\ rl = InitialRateLimit
    /\ transport \in {[kind |-> "any", K |-> 0, waf |-> waf_name] : waf_name \in WafNames}
    /\ limits = [payloads |-> 0, order_by |-> 0]
    /\ handled = NothingHandled
    /\ run = [pc |-> "crawling", unfinished |-> 0]
    /\ fc = NoManager
    /\ pe = NoExpansion
    /\ rlgen = NoGenerator
    /\ orch = NoOrchestrator
    /\ analysis = NoAnalysis
    /\ wafdet = NoDetection
    /\ dd = NoDedup
    /\ sel = NoSelector
    /\ gen = NoCall

NextRL ==
    \/ \E w \in Workers : RLSend(w)
    \/ \E w \in Workers : RLRecv(w)

SpecRL == InitRL /\ [][NextRL]_vars

----------------------------------------------------------------------------
(* Properties *)

\* the requests of worker w that are in flight
in_flight(w) == {req \in net : req.w = w}

\* the technique probes a step sends (the baseline requests are no probes)
probes_sent(before, after) == {req \in after \ before : req.kind # "baseline"}

\* every scan_target call has returned, none skipped by scanner_worker, and the queue is empty
ScanDone ==
    /\ queue = <<>>
    /\ net = {}
    /\ \A w \in Workers : wk[w].pc = "idle" /\ wk[w].log \notin {"timeout", "error"}

stored_pairs(points) == {<<points[i].url, points[i].parameter>> : i \in 1..Len(points)}

\* C1: the result set holds at most one record per (url, parameter) in every
\* reachable state, whatever the interleaving of the workers' reports, and a step
\* only ever appends to it: the records already stored stay, unchanged and in place.
C1_OneRecordPerPair ==
    [][ /\ \A i, j \in 1..Len(vulnerable_points') :
            (   vulnerable_points'[i].url = vulnerable_points'[j].url
             /\ vulnerable_points'[i].parameter = vulnerable_points'[j].parameter) => i = j
        /\ Len(vulnerable_points') >= Len(vulnerable_points)
        /\ \A i \in 1..Len(vulnerable_points) :
            vulnerable_points'[i] = vulnerable_points[i] ]_vars

\* C1 witness: two workers have each reported a finding for the same pair, one record
\* is stored and the second report was dropped
C1_SecondFindingDropped ==
    \E w1, w2 \in Workers :
        /\ w1 # w2
        /\ wk[w1].success /\ wk[w1].stored = 1
        /\ wk[w2].success /\ wk[w2].stored = 0
        /\ Len(vulnerable_points) = 1

\* C2: one scan_target call stores at most one record, whatever the item's parameters
\* and whatever the target answers.
C2_AtMostOneStoredPerCall == \A w \in Workers : wk[w].stored <= 1

\* C2 witness: a call on the form found nothing on its first parameter, stored a
\* finding on the second one and returned
C2_StoredOnSecondParameter ==
    \E w \in Workers :
        /\ wk[w].pc = "idle" /\ wk[w].success /\ wk[w].stored = 1
        /\ Len(vulnerable_points) = 1
        /\ vulnerable_points[1].parameter = "q"

\* C3: once a record for a (url, parameter) is stored, no step sends a technique probe
\* for that pair any more.
C3_NoProbeOnceStored ==
    [][ \A req \in probes_sent(net, net') :
            <<req.url, req.param>> \notin stored_pairs(vulnerable_points) ]_vars

\* the stage of the specification's per-parameter state machine a position of
\* scan_target belongs to: BASELINE 1, TAINT 2, ERROR_BASED 3, TIME_BASED 4,
\* BOOLEAN_BASED 5, UNION_BASED 6, DONE 7
StageOf(pc) ==
    CASE pc = "baseline"                                 -> 1
      [] pc = "taint"                                    -> 2
      [] pc = "fuzz"                                     -> 3
      [] pc \in {"confirm_true", "confirm_false",
                 "ast_true", "ast_false"}                -> 5
      [] pc \in {"order_by", "union"}                    -> 6
      [] OTHER                                           -> 7

\* C4: while a call works on one parameter, a step leaves it in its stage, moves it to
\* the next stage of the order baseline, taint analysis, error-based, time-based,
\* boolean-based, UNION-based, done, or ends the parameter's scan: no stage is skipped
\* and none is entered after a later one.
C4_FixedStageOrder ==
    [][ \A w \in Workers :
            (wk[w].pc # "idle" /\ wk'[w].pidx = wk[w].pidx)
                => \/ StageOf(wk'[w].pc) = StageOf(wk[w].pc)
                   \/ StageOf(wk'[w].pc) = StageOf(wk[w].pc) + 1
                   \/ StageOf(wk'[w].pc) = 7 ]_vars

\* C5: a scan never has two requests in flight, and a call whose technique succeeded
\* has no request in flight from then on.
C5_SequentialShortCircuit ==
    \A w \in Workers :
        /\ Cardinality(in_flight(w)) <= 1
        /\ wk[w].success => in_flight(w) = {}

\* C5 witness: the fuzz pass and the UNION scan of a parameter ended without a finding,
\* the AST boolean scan succeeded and the call returned with nothing in flight
C5_ReturnedOnSuccess ==
    \E w \in Workers :
        /\ wk[w].pc = "idle" /\ wk[w].success /\ in_flight(w) = {}
        /\ Len(vulnerable_points) = 1
        /\ vulnerable_points[1].type = "Boolean-Based SQLi (AST)"

\* the finding types that name the time-based technique; scan_target reports none of
\* them (its types are those of the four vuln_info calls)
TimeBasedTypes == {"Time-Based SQLi", "Time-Based Blind SQLi"}

BooleanTypes == {"Boolean-Based SQLi", "Boolean-Based SQLi (AST)"}

\* C6: against the transport that delays the requests carrying SLEEP(5), the scan of
\* GET /item?id=1 ends with exactly one record, of a time-based type, on parameter id.
C6_TimeBasedFound ==
    (transport.kind = "time" /\ ScanDone)
        => /\ Len(vulnerable_points) = 1
           /\ vulnerable_points[1].type \in TimeBasedTypes
           /\ vulnerable_points[1].parameter = "id"

\* C7: against the transport that answers the FALSE payloads with another body than
\* the unmodified request and the TRUE payloads, the scan ends with a boolean finding
\* stored; against the transport that answers all three alike, it ends with none.
C7_BooleanScenario ==
    ScanDone =>
        /\ transport.kind = "bool_diff"
                => \E i \in 1..Len(vulnerable_points) :
                        vulnerable_points[i].type \in BooleanTypes
        /\ transport.kind = "bool_same"
                => \A i \in 1..Len(vulnerable_points) :
                        vulnerable_points[i].type \notin BooleanTypes

\* C8: a step that stores a boolean finding is the step of a scan whose TRUE response
\* is close to the baseline body.
C8_TrueCloseToBaseline ==
    [][ \A w \in Workers :
            (   wk[w].pc \in {"confirm_false", "ast_false"}
             /\ wk'[w].stored > wk[w].stored
             /\ vulnerable_points'[Len(vulnerable_points')].type \in BooleanTypes)
                => ~differs(wk[w].true_body, wk[w].base.body) ]_vars

\* C9: against the transport whose answer diverges exactly for ORDER BY n with n > K
\* and that reflects the marker only in column K, the scan ends with one record, a
\* UNION finding on parameter id whose union_info.column_count is K.
C9_ColumnCountIsK ==
    (transport.kind = "union" /\ ScanDone)
        => /\ Len(vulnerable_points) = 1
           /\ vulnerable_points[1].type = "UNION-based SQLi"
           /\ vulnerable_points[1].parameter = "id"
           /\ vulnerable_points[1].union_info.column_count = transport.K

\* C9 witness: the scan against the transport with K = 24 has returned with a record
\* whose column count is 24
C9_FoundLastColumnCount ==
    /\ transport.kind = "union"
    /\ transport.K = ORDER_BY_LAST - 1
    /\ ScanDone
    /\ Len(vulnerable_points) = 1
    /\ vulnerable_points[1].union_info.column_count = 24

\* C10: a step that handles a response with status 429 or 503 leaves rate limiting
\* active, the clean counter at 0 and the delay at min(2 x the delay before, 60 s),
\* which is more than before as long as the delay was below 60 s; and no step, of
\* whatever worker, leaves the delay above 60 s.
C10_BackoffOnRateLimit ==
    [][ /\ rl'.delay <= 960
        /\ (   handled'.n = handled.n + 1
             /\ ~handled'.a.exc
             /\ handled'.a.status \in {429, 503})
                => /\ rl'.active
                   /\ rl'.succ = 0
                   /\ rl'.delay = Min(2 * rl.delay, 960)
                   /\ rl.delay < 960 => rl'.delay > rl.delay ]_vars

\* C10 witness: six responses were handled, the last a 429, and the delay went from
\* 1 s to the 60 s ceiling: all six were 429/503, each raising the delay
C10_ReachedCeiling ==
    /\ handled.n = 6
    /\ handled.a.status = 429
    /\ rl.delay = 960
    /\ rl.active
    /\ rl.succ = 0

\* C11: while rate limiting is active the delay goes down only in a step that
\* completes ten responses in a row that were neither WAF-blocked nor rate-limited,
\* never below 1.0 s, and rate limiting is switched off when the delay reaches 1.0 s.
C11_HalvedAfterTenInARow ==
    [][ (rl.active /\ rl'.delay < rl.delay)
            => /\ handled'.clean = 10
               /\ rl'.delay = Max(16, rl.delay \div 2)
               /\ rl'.active = (rl'.delay # 16) ]_vars

\* C12: every request is sent after a wait of the static delay of the fingerprinted
\* WAF plus, while rate limiting is active, the backoff delay, give or take 20%.
C12_WaitBeforeRequest ==
    [][ \A req \in net' \ net :
            LET due == static_request_delay(transport.waf)
                        + (IF rl'.active THEN rl'.delay ELSE 0)
            IN  /\ 10 * req.waited >= 8 * due
                /\ 10 * req.waited <= 12 * due ]_vars


\* C13: a scan that runs into the 600 s timeout or raises an exception is printed as
\* skipped by scanner_worker and goes no further: in the step in which the worker
\* prints the message, the item is marked done on the queue, no request of the
\* abandoned scan stays in flight, nothing is stored, and the worker is back at
\* queue.get(), alive
C13_SkipKeepsWorkerAlive ==
    [][ \A w \in Workers :
          (wk[w].pc # "idle" /\ wk'[w].log \in {"timeout", "error"}) =>
              /\ wk'[w].pc = "idle"
              /\ run'.unfinished = run.unfinished - 1
              /\ {req \in net' : req.w = w} = {}
              /\ vulnerable_points' = vulnerable_points ]_vars

\* C13 witness: one worker printed the timeout, the other the exception, both wait
\* at queue.get() again, and every item taken so far is marked done
C13_BothSkipsSeen ==
    \E w1 \in Workers : \E w2 \in Workers :
        /\ wk[w1].log = "timeout" /\ wk[w1].pc = "idle"
        /\ wk[w2].log = "error" /\ wk[w2].pc = "idle"
        /\ run.unfinished = Len(queue)


\* C14: the run terminates.  From the moment the crawler has returned, the run reaches
\* its end: the wait on the workers has completed, every worker has left its loop,
\* the queue is empty (each sentinel was taken by one worker, and every item before
\* them), and no scan or request is left over
RunEnded ==
    /\ run.pc = "done"
    /\ \A w \in Workers : wk[w].pc = "stopped"
    /\ queue = <<>>
    /\ net = {}

C15_NoBaselineNoProbe ==
    [][ \A w \in Workers :
          (/\ wk[w].pc = "baseline" /\ wk[w].n = BASELINE_REQUESTS
           /\ wk'[w] # wk[w]
           /\ ~wk[w].base.ok /\ ~wk'[w].base.ok) =>
              /\ wk'[w].pc = "idle"
              /\ \A req \in net : req.w = w => req.kind = "baseline"
              /\ {req \in net' : req.w = w} = {}
              /\ vulnerable_points' = vulnerable_points ]_vars

\* C15 witness: _get_baseline reported that no baseline could be established, and
\* the scan has returned with nothing stored and nothing in flight
C15_ScanEndedWithoutBaseline ==
    \E w \in Workers :
        /\ wk[w].log = "no baseline" /\ wk[w].pc = "idle"
        /\ vulnerable_points = <<>>
        /\ net = {}
        /\ queue = <<>>


\* C16: in the fuzz-and-score path the score alone never stores a finding: the step
\* in which a worker handles the answer to a fuzz probe stores nothing, a finding of
\* that path being stored only by the step that handles the answer to the FALSE
\* request of the boolean-confirmation round
C16_ScoreAloneNeverStores ==
    [][ \A w \in Workers :
          (wk[w].pc = "fuzz" /\ wk'[w] # wk[w]) =>
              vulnerable_points' = vulnerable_points ]_vars


\* C17: a WAF-blocked response is a neutral sample in the boolean-confirmation round
\* too: when the step that handles the answer to the FALSE request stores a finding,
\* neither of the two responses it compared was a block page
C17_BlockedIsNeutralInConfirmation ==
    [][ \A w \in Workers :
          (/\ wk[w].pc = "confirm_false"
           /\ wk'[w] # wk[w]
           /\ Len(vulnerable_points') > Len(vulnerable_points)) =>
              ~has_block_keyword(wk[w].true_body) ]_vars


\* the condition a boolean payload injects: the payload without the quote the context
\* put in front and without the closing comment
injected_condition(sql) ==
    SubSeq(sql, IF sql[1] \in {"'", "\""} THEN 2 ELSE 1, Len(sql) - 1)

\* the value of TRUE AND/OR <left> =/LIKE <right> over literals: "true", "false", or
\* "invalid" when it is not such a condition (an operand is missing)
evaluated(cond) ==
    IF Len(cond) # 5 \/ cond[1] # "TRUE" \/ cond[2] \notin {"AND", "OR"}
          \/ cond[4] \notin {"=", "LIKE"} \/ cond[3] = "" \/ cond[5] = ""
    THEN "invalid"
    ELSE LET comparison == cond[3] = cond[5]
         IN  IF (cond[2] = "OR") \/ comparison THEN "true" ELSE "false"

\* C18: every pair generate(BOOLEAN_BASED, ...) returns, for every dialect and context
\* and under the AND and the OR wrapping, has a TRUE member whose injected condition
\* evaluates to true and a FALSE member whose injected condition evaluates to false
C18_TruePairTautologyFalsePairContradiction ==
    (gen.pc = "generated" /\ gen.payload_type = "BOOLEAN_BASED" /\ ~gen.out.raised) =>
        \A k \in 1..Len(gen.out.payloads) :
            /\ evaluated(injected_condition(gen.out.payloads[k].true_sql)) = "true"
            /\ evaluated(injected_condition(gen.out.payloads[k].false_sql)) = "false"

\* C19: the context wrapping is idempotent: wrapping what the wrapping gave, in the
\* same context, gives it back unchanged
C19_WrapIdempotent ==
    gen.wraps = 2 => gen.twice = gen.once

\* C20: generate never raises, whatever the technique name and the dialect, and
\* returns the empty list for an unknown technique, for OOB without a collaborator
\* URL, and for OOB on a dialect without an out-of-band primitive
C20_GenerateNeverRaises ==
    gen.pc = "generated" =>
        /\ ~gen.out.raised
        /\ (\/ gen.payload_type \notin {"TIME_BASED", "BOOLEAN_BASED", "OOB"}
            \/ gen.payload_type = "OOB" /\ ~has_collaborator_url(gen.options)
            \/ gen.payload_type = "OOB" /\ dialect_of(gen.dialect) \in {"sqlite", "unknown"})
                => gen.out.payloads = <<>>


\* the entry of chain in the statistics, a chain without entry having value 0.0, count 0
stat_of(stats, chain) ==
    IF stat_index(stats, chain) # 0 THEN stats[stat_index(stats, chain)]
    ELSE [chain |-> chain, value |-> rational(0, 1), count |-> 0]

\* C21: after any sequence of update_stats calls with rewards -1, 0, +1, a chain that
\* was not primed has as count the number of updates it got and as value the mean of
\* the rewards it was given, which lies between -1 and +1; and a chain that was
\* updated is among the known chains
C21_ValueIsMeanOfRewards ==
    \A chain \in ChainsUpdated \ sel.seeded :
        LET st == stat_of(sel.s.stats, chain)
            g  == sel.given[chain]
        IN  g.n > 0 =>
                /\ st.count = g.n
                /\ st.value = rational(g.sum, g.n)
                /\ -st.value.q <= st.value.p /\ st.value.p <= st.value.q
                /\ in_seq(chain, sel.s.chains)

\* C21 witness: the chain the selector did not know got three rewards that sum to 1:
\* it is registered, the last of the known chains, with count 3 and value 1/3
C21_UnknownChainAveraged ==
    /\ sel.given[<<"between">>] = [n |-> 3, sum |-> 1]
    /\ stat_of(sel.s.stats, <<"between">>).value = rational(1, 3)
    /\ stat_of(sel.s.stats, <<"between">>).count = 3
    /\ sel.s.chains[Len(sel.s.chains)] = <<"between">>


\* the values of the statistics, entry by entry, without the counts
values_of(stats) == [i \in 1..Len(stats) |-> [chain |-> stats[i].chain, value |-> stats[i].value]]

\* C22: repeating update_stats(chainA, +1) often enough leads to a state from which
\* select_chain() with epsilon = 0 always returns chainA.  So an update_stats(chainA, +1)
\* that changes no value at all (from where on no repetition changes one either)
\* must leave a selector whose choice with epsilon = 0 is chainA
C22_RepeatedSuccessIsSelected ==
    [][ (/\ sel'.updates = sel.updates + 1
         /\ sel'.last.reward = 1
         /\ values_of(sel'.s.stats) = values_of(sel.s.stats)) =>
            select_chain(sel'.s, FALSE) = {sel'.last.chain} ]_vars

\* C23: with epsilon = 0, select_chain() returns a known chain whose value no known
\* chain exceeds, a chain without recorded update having value 0.0
C23_SelectsHighestValue ==
    (sel.selected.has /\ ~sel.selected.explore) =>
        /\ in_seq(sel.selected.chain, sel.s.chains)
        /\ \A i \in 1..Len(sel.s.chains) :
              ~less_than(stat_of(sel.s.stats, sel.selected.chain).value,
                         stat_of(sel.s.stats, sel.s.chains[i]).value)


\* C24: every technique success that stores a Vulnerability comes with
\* update_stats(chain, +1) for the tamper chain of the stored record: the step that
\* appends the record is an update of the selector with that chain and reward +1
C24_SuccessRewardsChain ==
    [][ Len(vulnerable_points') > Len(vulnerable_points) =>
            /\ sel'.updates = sel.updates + 1
            /\ sel'.last = [chain |-> vulnerable_points'[Len(vulnerable_points')].tamper_chain,
                            reward |-> 1] ]_vars


\* the (url, parameter, technique family) of a record, the family being the type text
\* before its first "(", without the blanks around it
family_signature(vuln) == <<vuln.url, vuln.parameter, strip(before_paren(vuln.type))>>

\* C25: deduplicate_vulnerabilities returns the input records in their order, keeping
\* of each (url, parameter, family) signature the first record that carries it: the
\* output is the input at the kept positions, which rise; no two output records share
\* a signature; every input record's signature is in the output; and a kept record is
\* the first of the input with its signature
C25_FirstOfEachSignature ==
    dd.returned =>
        LET input == dd.vulnerabilities
            out   == dd.unique_vulns
        IN  /\ Len(dd.kept) = Len(out)
            /\ \A a \in 1..Len(out) : dd.kept[a] \in 1..Len(input) /\ out[a] = input[dd.kept[a]]
            /\ \A a \in 1..Len(out) : \A b \in 1..Len(out) :
                  /\ a < b => dd.kept[a] < dd.kept[b]
                  /\ a # b => family_signature(out[a]) # family_signature(out[b])
            /\ \A k \in 1..Len(input) :
                  \E a \in 1..Len(out) :
                      /\ family_signature(out[a]) = family_signature(input[k])
                      /\ dd.kept[a] <= k

\* C25 witness: of three records on the same url and parameter, a boolean finding, its
\* tampered variant and a time-based finding, the first and the third are returned
C25_TamperedVariantDropped ==
    /\ dd.returned
    /\ Len(dd.vulnerabilities) = 3
    /\ dd.vulnerabilities[1].type = <<"Boolean-Based SQLi">>
    /\ dd.vulnerabilities[2].type = <<"Boolean-Based SQLi", " ", "(", "Tampered", ")">>
    /\ dd.kept = <<1, 3>>


\* how many signals of the entry the features match
match_count(sig, features) ==
    LET m == matched_signals(sig, features)
    IN  m.headers + m.cookies + m.body + m.ja3 + m.delay + m.h2

\* C26: a WAF is declared only when the number of matched signals of its signature
\* entry reaches the entry's min_matches
C26_DeclaredOnlyAtMinMatches ==
    (wafdet.pc = "returned" /\ wafdet.waf_name # None) =>
        LET sig == waf_signatures(wafdet.min_matches)[wafdet.waf_name]
        IN  match_count(sig, wafdet.features) >= sig.min_matches

----------------------------------------------------------------------------
\* the item a worker takes in this step, if any
taken_item == Head(queue)

\* C27: an item that carries a URL parameter, a form field or a JSON field is never
\* taken off the queue without a request being sent for it
C27_NoParameterItemDropped ==
    [][ (queue # <<>> /\ queue' = Tail(queue) /\ taken_item # Sentinel
            /\ taken_item.inputs # <<>>)
        => \E req \in net' \ net : req.kind = "baseline" ]_vars

----------------------------------------------------------------------------
\* C28: when the response body matches an entry of the SQL error-pattern table, the
\* dialect inferred is that of the first matching entry in table order: mysql for a
\* MySQL pattern, mssql for a SQL Server one, oracle for an Oracle one, postgresql for
\* a PostgreSQL one
C28_DialectOfFirstPattern ==
    (analysis.pc = "returned" /\ matching_patterns(analysis.response_body) # {}) =>
        LET first == CHOOSE i \in matching_patterns(analysis.response_body) :
                        \A j \in matching_patterns(analysis.response_body) : i <= j
        IN  pattern_family(first) # None
                => analysis.inferred_dialect = pattern_family(first)

----------------------------------------------------------------------------
\* C29: run returns, and leaves in the report file, exactly the metrics the agents
\* sent, each once and in the order sent
C29_AllMetricsReturned ==
    orch.pc = "returned" =>
        /\ orch.returned = orch.sent
        /\ orch.sent # <<>> => (orch.report_written /\ orch.report = orch.sent)

----------------------------------------------------------------------------
\* the Q-value choose sorted a technique by
learned(tech) == q_value(rlgen.q_table, tech.name)

\* C30: with epsilon = 0, choose returns a permutation of the techniques given, ordered
\* by non-increasing Q-value; a technique whose Q-value is strictly the highest is first
C30_OrderedByLearnedValue ==
    (rlgen.pc = "chosen" /\ rlgen.epsilon = 0) =>
        LET given   == rlgen.techniques
            ordered == rlgen.ordered
        IN  /\ Len(ordered) = Len(given)
            /\ \A t \in Techniques :
                    Cardinality({k \in 1..Len(ordered) : ordered[k] = t})
                        = Cardinality({k \in 1..Len(given) : given[k] = t})
            /\ \A k \in 1..(Len(ordered) - 1) :
                    ~less_than(learned(ordered[k]), learned(ordered[k + 1]))
            /\ \A k \in 1..Len(given) :
                    (\A j \in 1..Len(given) :
                        j # k => less_than(learned(given[j]), learned(given[k])))
                    => ordered[1] = given[k]

\* C30 witness: after updates, choose was given A before B while B has learned the
\* strictly highest value, and two techniques of one name were given
C30_LearnedTechniqueFirst ==
    /\ rlgen.pc = "chosen" /\ rlgen.epsilon = 0 /\ rlgen.updates = MaxLearned
    /\ Len(rlgen.techniques) = 3
    /\ rlgen.techniques[1].name = "A"
    /\ less_than(q_value(rlgen.q_table, "A"), q_value(rlgen.q_table, "B"))
    /\ less_than(rational(0, 1), q_value(rlgen.q_table, "A"))
    /\ rlgen.ordered[3].name = "A"

----------------------------------------------------------------------------
\* the tokens of the grammar of the call
grammar_tokens == {pe.grammar[k].token : k \in 1..Len(pe.grammar)}

\* C31: a grammar token with a taint_map entry is never replaced by a grammar
\* expansion (only by the taint_map value), and no grammar token is left in the payload
\* handed to the tamper functions
C31_TaintedAndFullyExpanded ==
    /\ \A token \in pe.drawn :
            in_taint_map(pe.taint_map, token) =>
                \E k \in 1..Len(pe.grammar) : \E x \in 1..Len(pe.grammar[k].expansions) :
                    /\ pe.grammar[k].token = token
                    /\ pe.grammar[k].expansions[x] = taint_value(pe.taint_map, token)
    /\ pe.pc = "handed" =>
            \A k \in 1..Len(pe.payload) : pe.payload[k] \notin grammar_tokens

\* C38: _apply_grammar terminates for every payload, grammar and taint map
C38_ApplyGrammarTerminates ==
    (pe.pc = "called") ~> (pe.pc = "expanded")

----------------------------------------------------------------------------
\* C32: in an HTML-text (or unknown) context the wrapping adds no quote prefix: the
\* result is the payload followed by the end-of-statement comment
C32_NoPrefixInTextContext ==
    (gen.wraps >= 1 /\ gen.context = "HTML_TEXT") => gen.once = gen.raw \o <<"-- ">>

----------------------------------------------------------------------------
\* C33: every tamper name of a chain the selector returns is an entry of the lookup
\* table: apply_tampers applies every element of the chain and passes over none
C33_EveryTamperApplied ==
    sel.selected.has =>
        apply_tampers(<<"1", "OR", "1", "=", "1">>, sel.selected.chain).applied
            = sel.selected.chain

----------------------------------------------------------------------------
\* the aggregate score of the entry called name for the features of the call
entry_score(name) ==
    signal_score(matched_signals(waf_signatures(wafdet.min_matches)[name], wafdet.features))

\* the features match one header, cookie or body signal of the entry and nothing else
single_weak_match(name) ==
    LET m == matched_signals(waf_signatures(wafdet.min_matches)[name], wafdet.features)
    IN  m.headers + m.cookies + m.body = 1 /\ m.ja3 + m.delay + m.h2 = 0

\* C34: the classifier returns an entry of the highest aggregate score when that score
\* reaches 2.0 and no WAF otherwise; one header, cookie or body match alone declares no
\* WAF; features with an empty body yield no WAF
C34_HighestScoreAtTheBar ==
    wafdet.pc = "returned" =>
        LET names == {signature_names[k] : k \in 1..Len(signature_names)}
        IN  /\ wafdet.features.body = {} => wafdet.waf_name = None
            /\ wafdet.features.body # {} =>
                   IF \E n \in names : entry_score(n) >= 4
                   THEN /\ wafdet.prediction \in names
                        /\ \A n \in names : entry_score(n) <= entry_score(wafdet.prediction)
                   ELSE wafdet.prediction = None
            /\ \A n \in names : single_weak_match(n) => wafdet.waf_name # n
            /\ wafdet.waf_name \in {None, wafdet.prediction}

\* C34 witness: the TLS fingerprint of TestJA3 matches (2.0) and partial signals of
\* EdgeWAF, none of them at the bar alone, add up to more: EdgeWAF is returned
C34_PartialSignalsWin ==
    /\ wafdet.pc = "returned"
    /\ wafdet.features.ja3 = "abcd1234"
    /\ wafdet.features.h2_features = {}
    /\ wafdet.features.cookies = {}
    /\ entry_score("EdgeWAF") = 5
    /\ wafdet.waf_name = "EdgeWAF"

----------------------------------------------------------------------------
\* C35: the backoff delay is at least 1.0 s, the count of clean responses is below 10,
\* and rate limiting is active exactly when the delay is above 1.0 s
C35_RateLimiterInvariant ==
    /\ rl.delay >= MIN_BACKOFF_DELAY
    /\ rl.succ < CLEAN_STREAK
    /\ rl.active <=> rl.delay > MIN_BACKOFF_DELAY

\* C35 witness: after a rate-limited response the limiter is active with the delay at
\* 2.0 s and nine clean responses counted: the next clean one halves the delay to the
\* floor and turns the limiter off
C35_ActiveAtLastCleanCount ==
    /\ rl.active
    /\ rl.delay = 2 * MIN_BACKOFF_DELAY
    /\ rl.succ = CLEAN_STREAK - 1

----------------------------------------------------------------------------
\* the workers that hold an item: scan_target is under way
scanning == {w \in Workers : wk[w].pc \notin {"idle", "stopped"}}

\* the real items on the queue
queued_items == {k \in 1..Len(queue) : queue[k] # Sentinel}

\* C36: task_done is called exactly once for every item taken (the unfinished count of
\* the queue is the items queued or being scanned, and the sentinels once they are
\* put), and the sentinels are put only after join has returned: while a sentinel is
\* queued or taken, no item is queued or being scanned
C36_DoneOncePerItem ==
    LET sentinels_put == run.pc \in {"gathering", "done"}
    IN  /\ run.unfinished = Cardinality(queued_items) + Cardinality(scanning)
                               + (IF sentinels_put THEN Cardinality(Workers) ELSE 0)
        /\ ((\E k \in 1..Len(queue) : queue[k] = Sentinel)
                \/ (\E w \in Workers : wk[w].pc = "stopped")) => sentinels_put
        /\ sentinels_put => (queued_items = {} /\ scanning = {})

\* C36 witness: a worker has taken its sentinel after one scan was skipped on the
\* timeout and another ended on an exception
C36_SentinelAfterSkips ==
    /\ run.pc = "gathering"
    /\ \E w \in Workers : wk[w].pc = "stopped"
    /\ \E w \in Workers : wk[w].log = "timeout"
    /\ \E w \in Workers : wk[w].log = "error"

----------------------------------------------------------------------------
\* C37: when the answer to the probe ORDER BY n with prefix p is handled, then: if it
\* is not blocked, has a body and differs from the baseline, the column count is n - 1
\* and, if that is at least 1, the UNION SELECT probes start with that count and prefix,
\* while a count of 0 ends the UNION scan with no finding and no UNION SELECT probe;
\* otherwise the probe is passed over and the next one is ORDER BY n + 1, or ORDER BY 1
\* with the next prefix after n = 25, or, after the last prefix, the UNION scan ends
\* with no finding and no UNION SELECT probe
C37_ColumnCountFromFirstDivergence ==
    [][ \A w \in Workers :
          (wk[w].pc = "order_by" /\ wk'[w] # wk[w] /\ wk'[w].log # "timeout") =>
            \E req \in net \ net' : \E a \in answers(req) :
              /\ req.w = w
              /\ req.kind = "order_by"
              /\ LET r        == wk[w]
                     r2       == wk'[w]
                     res      == returned(a)
                     sent     == {q \in net' \ net : q.w = w}
                     skipped  == res.blocked \/ res.body = ""
                     diverged == ~skipped /\ differs(res.body, r.base.body)
                     ended    == /\ r2.pc \notin {"order_by", "union"}
                                 /\ \A q \in sent : q.kind \notin {"order_by", "union"}
                                 /\ vulnerable_points' = vulnerable_points
                 IN  IF diverged /\ r.n - 1 >= 1
                     THEN /\ r2.pc = "union"
                          /\ r2.column_count = r.n - 1
                          /\ r2.prefix = r.prefix
                          /\ sent # {}
                          /\ \A q \in sent :
                                /\ q.kind = "union"
                                /\ q.value = <<original_value(r)>>
                                      \o union_payload(break_out_chars[r.prefix], r.n - 1, 0)
                     ELSE IF diverged
                     THEN ended
                     ELSE IF r.n < ORDER_BY_LAST
                     THEN /\ r2.pc = "order_by" /\ r2.n = r.n + 1 /\ r2.prefix = r.prefix
                          /\ \A q \in sent : q.kind = "order_by"
                     ELSE IF r.prefix < Len(break_out_chars)
                     THEN /\ r2.pc = "order_by" /\ r2.n = 1 /\ r2.prefix = r.prefix + 1
                          /\ \A q \in sent : q.kind = "order_by"
                     ELSE ended ]_vars

\* C37 witness: no probe of the first two prefixes diverged, ORDER BY 25 with the third
\* prefix did, and the UNION SELECT probes run with 24 columns
C37_CountFromThirdPrefix ==
    \E w \in Workers :
        /\ wk[w].pc = "union"
        /\ wk[w].prefix = Len(break_out_chars)
        /\ wk[w].column_count = ORDER_BY_LAST - 1
        /\ transport.kind = "any"

----------------------------------------------------------------------------
\* C39: every agent passed to run is executed exactly once, also when there are more
\* agents than microVMs: when the gather of run is over, each agent has been called once
C39_EveryAgentExecuted ==
    fc.pc = "gathered" => \A a \in 1..fc.agents : fc.task[a].executed = 1

\* the addresses of the running VMs, and those of the pool
assigned_ips == {vm.ip : vm \in fc.m.vms}
free_ips == {fc.m.pool[k] : k \in 1..Len(fc.m.pool)}

\* C40: each address of the pool is free or assigned to exactly one running VM, never
\* both, so at most num_vms VMs run; the VM of an agent that has ended (returned or
\* raised) is deprovisioned; a second deprovisioning adds no address to the pool
C40_AddressFreeOrAssignedOnce ==
    fc.pc # "none" =>
        /\ free_ips \cup assigned_ips = {i - 1 : i \in 1..NumVMs}
        /\ free_ips \cap assigned_ips = {}
        /\ Cardinality(free_ips) = Len(fc.m.pool)
        /\ Cardinality(assigned_ips) = Cardinality(fc.m.vms)
        /\ Cardinality(fc.m.vms) <= NumVMs
        /\ \A a \in 1..fc.agents :
                fc.task[a].pc \in {"done", "raised"} => ~is_running(fc.m, fc.task[a].vm_id)
        /\ \A vm \in fc.m.vms :
                \E a \in 1..fc.agents :
                    fc.task[a].pc = "running" /\ fc.task[a].vm_id = vm.id
        /\ (\A a \in 1..fc.agents : fc.task[a].pc # "running") =>
                (fc.m.vms = {} /\ Len(fc.m.pool) = NumVMs)

\* C40 witness: every VM was in use at once, an agent raised, and after the run a VM
\* was deprovisioned a second time: the pool holds every address once
C40_PoolWholeAfterSecondCall ==
    /\ fc.pc = "gathered"
    /\ fc.issued >= NumVMs
    /\ fc.again >= 1
    /\ \E a \in 1..fc.agents : fc.task[a].pc = "raised"
    /\ \E a \in 1..fc.agents : fc.task[a].pc = "skipped"
    /\ Len(fc.m.pool) = NumVMs

=============================================================================
